---- MODULE Spec2Model ----
(***************************************************************************)
(* Model of the generated hook runtime of claude-hooks: the standard       *)
(* validator main and the router main (trigger check, discovery, routing   *)
(* oracle call, parallel fan-out to child processes, aggregation and the   *)
(* fail-mode catch), as emitted by src/src/generator/hook-generator.ts.    *)
(*                                                                         *)
(* Texts are modelled as sequences of string tokens: paths, glob patterns  *)
(* and hook names as sequences of one-character strings, oracle responses  *)
(* and reasons as sequences of lexical tokens.                             *)
(***************************************************************************)
EXTENDS Integers, Sequences, FiniteSets, TLC

(***************************************************************************)
(* Bounds                                                                  *)
(***************************************************************************)
\* the routing oracle returns every JSON array of at most MaxSel values,
\* and the longer arrays listed in RoutingTexts
MaxSel == 1

None == "none"

(***************************************************************************)
(* Generic sequence helpers                                                *)
(***************************************************************************)
SeqsUpTo(S, n) == UNION { [1..k -> S] : k \in 0..n }

Range(s) == { s[i] : i \in 1..Len(s) }

\* Array.prototype.includes
Includes(s, x) == \E i \in 1..Len(s) : s[i] = x

\* Array.prototype.filter, keeping order
RECURSIVE Filter(_, _)
Filter(s, keep) ==
  IF s = <<>> THEN <<>>
  ELSE IF Head(s) \in keep THEN <<Head(s)>> \o Filter(Tail(s), keep)
       ELSE Filter(Tail(s), keep)

\* String.prototype.includes on token sequences: t occurs contiguously in s
Contains(s, t) ==
  \E k \in 0..(Len(s) - Len(t)) : \A i \in 1..Len(t) : s[k + i] = t[i]

StartsWith(s, t) ==
  /\ Len(t) <= Len(s)
  /\ \A i \in 1..Len(t) : s[i] = t[i]

\* t is a (not necessarily contiguous) subsequence of s
RECURSIVE IsSubseq(_, _)
IsSubseq(t, s) ==
  IF t = <<>> THEN TRUE
  ELSE IF s = <<>> THEN FALSE
  ELSE IF Head(t) = Head(s) THEN IsSubseq(Tail(t), Tail(s))
       ELSE IsSubseq(t, Tail(s))

\* Array.prototype.join: the parts separated by the token sep
RECURSIVE Join(_, _)
Join(ss, sep) ==
  IF ss = <<>> THEN <<>>
  ELSE IF Len(ss) = 1 THEN Head(ss)
       ELSE Head(ss) \o <<sep>> \o Join(Tail(ss), sep)

(***************************************************************************)
(* Glob matcher (matchesAnyPattern)                                        *)
(***************************************************************************)
\* The regular expression the pattern is rewritten to, as a sequence of
\* atoms: "\\." is rewritten first, then "**" to ".*", "*" to "[^/]*" and
\* "?" to "."; every other character stands for itself.
RECURSIVE GlobToRegex(_)
GlobToRegex(p) ==
  IF p = <<>> THEN <<>>
  ELSE IF Len(p) >= 2 /\ p[1] = "*" /\ p[2] = "*"
       THEN <<[k |-> "any"]>> \o GlobToRegex(SubSeq(p, 3, Len(p)))
  ELSE IF p[1] = "*" THEN <<[k |-> "seg"]>> \o GlobToRegex(Tail(p))
  ELSE IF p[1] = "?" THEN <<[k |-> "one"]>> \o GlobToRegex(Tail(p))
  ELSE <<[k |-> p[1]]>> \o GlobToRegex(Tail(p))

\* the regex atoms r[i..] match exactly the characters s[j..]
RECURSIVE RegexFull(_, _, _, _)
RegexFull(r, i, s, j) ==
  IF i > Len(r) THEN j > Len(s)
  ELSE IF r[i].k = "any"
       THEN \/ RegexFull(r, i + 1, s, j)
            \/ (j <= Len(s) /\ RegexFull(r, i, s, j + 1))
  ELSE IF r[i].k = "seg"
       THEN \/ RegexFull(r, i + 1, s, j)
            \/ (j <= Len(s) /\ s[j] # "/" /\ RegexFull(r, i, s, j + 1))
  ELSE IF r[i].k = "one"
       THEN j <= Len(s) /\ RegexFull(r, i + 1, s, j + 1)
  ELSE j <= Len(s) /\ s[j] = r[i].k /\ RegexFull(r, i + 1, s, j + 1)

\* new RegExp(`^${regex}$`).test(s)
TestAnchored(r, s) == RegexFull(r, 1, s, 1)

\* new RegExp(`${regex}$`).test(s): some suffix of s matches
TestEnd(r, s) == \E j \in 1..(Len(s) + 1) : RegexFull(r, 1, s, j)

\* filePath.split('/').pop() || filePath
RECURSIVE LastSegment(_)
LastSegment(s) ==
  IF ~Includes(s, "/") THEN s
  ELSE LastSegment(Tail(s))

FileNameOf(filePath) ==
  IF LastSegment(filePath) = <<>> THEN filePath ELSE LastSegment(filePath)

\* variant: a pattern without '/' is tested against the whole path
MatchesWholePath(filePath, pattern) ==
  LET regex == GlobToRegex(pattern) IN
  IF StartsWith(pattern, <<"*", "*", "/">>) THEN TestEnd(regex, filePath)
  ELSE IF ~Includes(pattern, "/") THEN TestAnchored(regex, filePath)
  ELSE TestEnd(regex, filePath)

MatchesPattern(filePath, pattern) ==
  LET regex == GlobToRegex(pattern) IN
  IF StartsWith(pattern, <<"*", "*", "/">>) THEN TestEnd(regex, filePath)
  ELSE IF ~Includes(pattern, "/") THEN TestAnchored(regex, FileNameOf(filePath))
  ELSE TestEnd(regex, filePath)

matchesAnyPattern(filePath, patterns) ==
  \E i \in 1..Len(patterns) : MatchesPattern(filePath, patterns[i])

(***************************************************************************)
(* Trigger matcher (shouldTrigger)                                         *)
(***************************************************************************)
\* variant: the include patterns are tested before the skip patterns
shouldTriggerIncludeFirst(input, trigger) ==
  IF /\ Len(trigger.tools) > 0
     /\ (input.tool_name = None \/ ~Includes(trigger.tools, input.tool_name))
  THEN FALSE
  ELSE IF input.file_path # <<>>
       THEN IF Len(trigger.files) > 0
               /\ matchesAnyPattern(input.file_path, trigger.files)
            THEN TRUE
            ELSE ~matchesAnyPattern(input.file_path, trigger.skip)
                 /\ Len(trigger.files) = 0
       ELSE TRUE

\* variant: an input without a file path cannot satisfy include patterns
shouldTriggerNeedsPath(input, trigger) ==
  IF /\ Len(trigger.tools) > 0
     /\ (input.tool_name = None \/ ~Includes(trigger.tools, input.tool_name))
  THEN FALSE
  ELSE IF input.file_path # <<>>
       THEN IF matchesAnyPattern(input.file_path, trigger.skip) THEN FALSE
            ELSE IF Len(trigger.files) > 0
                    /\ ~matchesAnyPattern(input.file_path, trigger.files)
                 THEN FALSE
                 ELSE TRUE
       ELSE Len(trigger.files) = 0

\* trigger: [tools, files, skip], each a sequence (<<>> when absent);
\* input: [tool_name, file_path] with None / <<>> when the field is missing
shouldTrigger(input, trigger) ==
  IF /\ Len(trigger.tools) > 0
     /\ (input.tool_name = None \/ ~Includes(trigger.tools, input.tool_name))
  THEN FALSE
  ELSE IF input.file_path # <<>>
       THEN IF matchesAnyPattern(input.file_path, trigger.skip) THEN FALSE
            ELSE IF Len(trigger.files) > 0
                    /\ ~matchesAnyPattern(input.file_path, trigger.files)
                 THEN FALSE
                 ELSE TRUE
       ELSE TRUE

(***************************************************************************)
(* Hook names                                                              *)
(***************************************************************************)
\* the characters of every hook name of the model
NameChars ==
  [ sec       |-> <<"s", "e", "c">>,
    qual      |-> <<"q", "u", "a", "l">>,
    ghost     |-> <<"g", "h", "o", "s", "t">>,
    myrouter  |-> <<"m", "y", "r", "o", "u", "t", "e", "r">>,
    dispatch  |-> <<"d", "i", "s", "p", "a", "t", "c", "h">>,
    Dispatch  |-> <<"D", "i", "s", "p", "a", "t", "c", "h">> ]
  @@ ("Sec Scan!" :> <<"S", "e", "c", " ", "S", "c", "a", "n", "!">>)
  @@ ("sec-scan" :> <<"s", "e", "c", "-", "s", "c", "a", "n">>)

AllNames == DOMAIN NameChars

\* metadata.name.includes('router')
IncludesRouter(name) ==
  Contains(NameChars[name], <<"r", "o", "u", "t", "e", "r">>)

\* the name made of the given characters
NameOf(chars) == CHOOSE n \in AllNames : NameChars[n] = chars

\* toLowerCase on the characters of the model
LowerChar(c) ==
  CASE c = "D" -> "d"
    [] c = "S" -> "s"
    [] c = "L" -> "l"
    [] c = "M" -> "m"
    [] OTHER   -> c

\* [a-z0-9]
SlugChars ==
  {"a", "b", "c", "d", "e", "f", "g", "h", "i", "j", "k", "l", "m", "n", "o",
   "p", "q", "r", "s", "t", "u", "v", "w", "x", "y", "z",
   "0", "1", "2", "3", "4", "5", "6", "7", "8", "9"}

\* replace(/[^a-z0-9]+/g, '-'): every run of other characters becomes one '-'
RECURSIVE ReplaceRuns(_, _)
ReplaceRuns(s, inRun) ==
  IF s = <<>> THEN <<>>
  ELSE IF Head(s) \in SlugChars THEN <<Head(s)>> \o ReplaceRuns(Tail(s), FALSE)
       ELSE IF inRun THEN ReplaceRuns(Tail(s), TRUE)
            ELSE <<"-">> \o ReplaceRuns(Tail(s), TRUE)

\* replace(/^-|-$/g, '')
StripDashes(s) ==
  LET t == IF s # <<>> /\ Head(s) = "-" THEN Tail(s) ELSE s
  IN  IF t # <<>> /\ t[Len(t)] = "-" THEN SubSeq(t, 1, Len(t) - 1) ELSE t

SlugOfChars(chars) ==
  StripDashes(ReplaceRuns([i \in 1..Len(chars) |-> LowerChar(chars[i])], FALSE))

\* slugify(name)
slugify(name) == NameOf(SlugOfChars(NameChars[name]))

(***************************************************************************)
(* Dynamic hook discovery (discoverHooks)                                  *)
(***************************************************************************)
\* a directory entry: isMeta = the file name ends with '.meta.json';
\* name = the name field of its JSON content, None when the content does
\* not parse or carries no name
\* allow: [isNull, list] is HOOK_ALLOWLIST
KeepMetadata(f, hookName, allow) ==
  /\ f.isMeta
  /\ f.name # None
  /\ ~(f.name = hookName \/ IncludesRouter(f.name))
  /\ ~(~allow.isNull /\ ~Includes(allow.list, f.name))

RECURSIVE ScanFiles(_, _, _)
ScanFiles(files, hookName, allow) ==
  IF files = <<>> THEN <<>>
  ELSE IF KeepMetadata(Head(files), hookName, allow)
       THEN <<Head(files).name>> \o ScanFiles(Tail(files), hookName, allow)
       ELSE ScanFiles(Tail(files), hookName, allow)

\* d: [readable, files]; readdirSync throwing leaves the list empty
discoverHooks(d, hookName, allow) ==
  IF ~d.readable THEN <<>> ELSE ScanFiles(d.files, hookName, allow)

\* the record generateMetadataFile writes for a definition
GeneratedMeta(defName) == [isMeta |-> TRUE, name |-> slugify(defName)]

\* the directory after generating the given definitions
GeneratedDir(defNames) ==
  [readable |-> TRUE,
   files    |-> [i \in 1..Len(defNames) |-> GeneratedMeta(defNames[i])]]

\* const allowlist = definition.router?.callableHooks?.length ? ... : 'null'
AllowlistOf(callableHooks) ==
  [isNull |-> Len(callableHooks) = 0, list |-> callableHooks]

(***************************************************************************)
(* Routing oracle (callClaude, parseHookList)                              *)
(***************************************************************************)
\* tokens of a response text: "[", "]", ",", "NL" (white space), "1" (a
\* JSON number), "text" (prose), and a hook name n for the JSON string "n"
IsStringTok(t) == t \in AllNames
IsValueTok(t) == IsStringTok(t) \/ t = "1"

\* stream: [threw, hasResult, result, parts]: the messages query() yields
\* (the text blocks of the assistant messages, then possibly a successful
\* result carrying a string), or an exception
callClaudeThrows(stream) ==
  \/ stream.threw
  \/ (~stream.hasResult /\ Len(stream.parts) = 0)

callClaudeText(stream) ==
  IF stream.hasResult THEN stream.result ELSE Join(stream.parts, "NL")

\* index of the first token tok of s at or after position i, 0 if none
RECURSIVE IndexFrom(_, _, _)
IndexFrom(s, tok, i) ==
  IF i > Len(s) THEN 0
  ELSE IF s[i] = tok THEN i
       ELSE IndexFrom(s, tok, i + 1)

RECURSIVE DropSpace(_)
DropSpace(s) ==
  IF s = <<>> THEN <<>>
  ELSE IF Head(s) = "NL" THEN DropSpace(Tail(s))
       ELSE <<Head(s)>> \o DropSpace(Tail(s))

\* JSON.parse of "[" body "]": body (white space dropped) is a comma
\* separated list of values
RECURSIVE IsValueList(_)
IsValueList(b) ==
  IF b = <<>> THEN FALSE
  ELSE IF Len(b) = 1 THEN IsValueTok(b[1])
       ELSE IsValueTok(b[1]) /\ b[2] = "," /\ IsValueList(SubSeq(b, 3, Len(b)))

IsJsonArrayBody(b) == b = <<>> \/ IsValueList(b)

RECURSIVE ValuesOf(_)
ValuesOf(b) ==
  IF b = <<>> THEN <<>>
  ELSE IF Head(b) = "," THEN ValuesOf(Tail(b))
       ELSE <<Head(b)>> \o ValuesOf(Tail(b))

\* response.match(/\[[\s\S]*?\]/): from the first "[" to the first "]"
\* after it; <<>> when there is no match
FirstArrayBody(response) ==
  LET i == IndexFrom(response, "[", 1)
      j == IF i = 0 THEN 0 ELSE IndexFrom(response, "]", i + 1)
  IN  [found |-> j # 0,
       body  |-> IF j = 0 THEN <<>> ELSE DropSpace(SubSeq(response, i + 1, j - 1))]

\* the response decodes as an array of strings
ParsesAsStringArray(response) ==
  LET m == FirstArrayBody(response) IN
  /\ m.found
  /\ IsJsonArrayBody(m.body)
  /\ \A i \in 1..Len(ValuesOf(m.body)) : IsStringTok(ValuesOf(m.body)[i])

\* variant: the parsed array is returned as it is
FilterValidNone(parsed, validHookNames) == parsed

FilterValid(parsed, validHookNames) == Filter(parsed, Range(validHookNames))

parseHookList(response, validHookNames) ==
  IF ParsesAsStringArray(response)
  THEN FilterValid(ValuesOf(FirstArrayBody(response).body), validHookNames)
  ELSE <<>>

(***************************************************************************)
(* Oracle response of a standard validator (parseResponse)                 *)
(***************************************************************************)
\* tokens of a validator response: the words below in either case, "SP"
\* (a blank), "NL" (a line break) and "text" (any other prose)
ToUpper(t) ==
  CASE t = "decision:" -> "DECISION:"
    [] t = "block"     -> "BLOCK"
    [] t = "allow"     -> "ALLOW"
    [] t = "reason:"   -> "REASON:"
    [] OTHER           -> t

toUpperCase(text) == [i \in 1..Len(text) |-> ToUpper(text[i])]

\* variant: only the form with a space is an explicit block
HasExplicitBlockSpaced(upper) ==
  Contains(upper, <<"DECISION:", "SP", "BLOCK">>)

HasExplicitBlock(upper) ==
  \/ Contains(upper, <<"DECISION:", "SP", "BLOCK">>)
  \/ Contains(upper, <<"DECISION:", "BLOCK">>)

HasBareBlock(upper) == Includes(upper, "BLOCK") /\ ~Includes(upper, "ALLOW")

parseDecision(response) ==
  LET upper == toUpperCase(response) IN
  IF HasExplicitBlock(upper) THEN "block"
  ELSE IF HasBareBlock(upper) THEN "block"
  ELSE "allow"

\* upper.includes('DECISION: ALLOW') || upper.includes('DECISION:ALLOW')
HasExplicitAllow(upper) ==
  \/ Contains(upper, <<"DECISION:", "SP", "ALLOW">>)
  \/ Contains(upper, <<"DECISION:", "ALLOW">>)

\* the decision of parseClaudeResponse, the parser the package exports
parseClaudeDecision(response) ==
  LET upper == toUpperCase(response) IN
  IF HasExplicitBlock(upper) THEN "block"
  ELSE IF HasExplicitAllow(upper) THEN "allow"
  ELSE IF Includes(upper, "BLOCK") THEN "block"
  ELSE "allow"

RECURSIVE TrimLeft(_)
TrimLeft(s) ==
  IF s = <<>> THEN <<>>
  ELSE IF Head(s) \in {"SP", "NL"} THEN TrimLeft(Tail(s))
       ELSE s

RECURSIVE TrimRight(_)
TrimRight(s) ==
  IF s = <<>> THEN <<>>
  ELSE IF s[Len(s)] \in {"SP", "NL"} THEN TrimRight(SubSeq(s, 1, Len(s) - 1))
       ELSE s

\* the tokens of s up to the first line break
RECURSIVE UpToLineEnd(_)
UpToLineEnd(s) ==
  IF s = <<>> \/ Head(s) = "NL" THEN <<>>
  ELSE <<Head(s)>> \o UpToLineEnd(Tail(s))

\* response.match(/REASON:\s*(.+)/i) at one occurrence of the label, rest
\* being the text after it: white space is skipped up to the first other
\* character and the capture runs to the end of that line; when only white
\* space follows, the match backtracks onto a blank if there is one
ReasonMatchAt(rest) ==
  IF TrimLeft(rest) # <<>>
  THEN [found |-> TRUE, capture |-> UpToLineEnd(TrimLeft(rest))]
  ELSE IF Includes(rest, "SP") THEN [found |-> TRUE, capture |-> <<"SP">>]
       ELSE [found |-> FALSE, capture |-> <<>>]

\* the leftmost match
RECURSIVE ReasonMatch(_)
ReasonMatch(s) ==
  IF s = <<>> THEN [found |-> FALSE, capture |-> <<>>]
  ELSE IF ToUpper(Head(s)) = "REASON:" /\ ReasonMatchAt(Tail(s)).found
       THEN ReasonMatchAt(Tail(s))
       ELSE ReasonMatch(Tail(s))

\* response.split('\n').filter(l => l.trim())[0]
RECURSIVE FirstNonBlankLine(_)
FirstNonBlankLine(s) ==
  IF s = <<>> THEN <<>>
  ELSE IF TrimLeft(UpToLineEnd(s)) # <<>> THEN UpToLineEnd(s)
  ELSE IF Includes(s, "NL") THEN FirstNonBlankLine(SubSeq(s, IndexFrom(s, "NL", 1) + 1, Len(s)))
  ELSE <<>>

parseReason(response) ==
  IF ReasonMatch(response).found
  THEN TrimRight(TrimLeft(ReasonMatch(response).capture))
  ELSE IF FirstNonBlankLine(response) # <<>> THEN FirstNonBlankLine(response)
       ELSE <<"Validation completed">>

(***************************************************************************)
(* Definition parser (parseMarkdown)                                       *)
(***************************************************************************)
\* A definition text is a sequence of lines (content.split('\n')); a line
\* is a sequence of tokens: "SP" is one blank, "#" and "##" are runs of
\* hash signs, every other token is a word without white space.
IsSpace(t) == t \in {"SP", "NL"}

\* the text as one sequence, with "NL" between the lines
TextOf(lines) == Join(lines, "NL")

\* String.prototype.split on a separator token
RECURSIVE Split(_, _)
Split(s, sep) ==
  LET k == IndexFrom(s, sep, 1) IN
  IF k = 0 THEN <<s>>
  ELSE <<SubSeq(s, 1, k - 1)>> \o Split(SubSeq(s, k + 1, Len(s)), sep)

\* String.prototype.trim
Trim(s) == TrimRight(TrimLeft(s))

\* toLowerCase of the words that are written with capitals in the texts
LowerTable ==
  [ Trigger |-> "trigger", Prompt |-> "prompt", PROMPT |-> "prompt",
    Options |-> "options", Router |-> "router", ROUTER |-> "router",
    Description |-> "description", Tags |-> "tags", Notes |-> "notes",
    PostToolUse |-> "posttooluse", PreToolUse |-> "pretooluse",
    Stop |-> "stop", UserPromptSubmit |-> "userpromptsubmit",
    SessionStart |-> "sessionstart", STOP |-> "stop",
    Open |-> "open", Closed |-> "closed", CLOSED |-> "closed",
    Fail |-> "fail", Max |-> "max", Lint |-> "lint" ]
  @@ ("Hook:" :> "hook:") @@ ("Event:" :> "event:") @@ ("Tools:" :> "tools:")
  @@ ("Files:" :> "files:") @@ ("Skip:" :> "skip:") @@ ("Mode:" :> "mode:")
  @@ ("Turns:" :> "turns:") @@ ("Callable:" :> "callable:")

LowerTok(t) == IF t \in DOMAIN LowerTable THEN LowerTable[t] ELSE t

toLowerCase(s) == [i \in 1..Len(s) |-> LowerTok(s[i])]

\* the number of white-space tokens s starts with
RECURSIVE SpaceRun(_)
SpaceRun(s) ==
  IF s = <<>> \/ ~IsSpace(Head(s)) THEN 0 ELSE 1 + SpaceRun(Tail(s))

NoMatch == [found |-> FALSE, capture |-> <<>>]

\* \s*(.+)$ on the text after 'Hook:': white space, line breaks included,
\* is skipped up to the first other character and the capture runs to the
\* end of that line; when only white space follows, the match backtracks
\* onto the last blank if there is one
NameCapture(rest) ==
  IF TrimLeft(rest) # <<>>
  THEN [found |-> TRUE, capture |-> UpToLineEnd(TrimLeft(rest))]
  ELSE IF Includes(rest, "SP") THEN [found |-> TRUE, capture |-> <<"SP">>]
       ELSE NoMatch

\* /^#\s+Hook:\s*(.+)$/m tried at position i of the text
NameMatchAt(text, i) ==
  IF ~(i = 1 \/ text[i - 1] = "NL") \/ text[i] # "#" THEN NoMatch
  ELSE LET n == SpaceRun(SubSeq(text, i + 1, Len(text)))
           h == i + n + 1
       IN  IF n = 0 \/ h > Len(text) \/ text[h] # "Hook:" THEN NoMatch
           ELSE NameCapture(SubSeq(text, h + 1, Len(text)))

\* content.match(...): the leftmost match
RECURSIVE NameMatchFrom(_, _)
NameMatchFrom(text, i) ==
  IF i > Len(text) THEN NoMatch
  ELSE IF NameMatchAt(text, i).found THEN NameMatchAt(text, i)
       ELSE NameMatchFrom(text, i + 1)

\* parseName: [threw, name]
parseName(lines) ==
  LET match == NameMatchFrom(TextOf(lines), 1) IN
  IF ~match.found THEN [threw |-> TRUE, name |-> <<>>]
  ELSE [threw |-> FALSE, name |-> Trim(match.capture)]

SectionNames ==
  {"trigger", "prompt", "options", "router", "description", "tags"}

\* sections = {}: no section has been saved
NoSections == [n \in SectionNames |-> [has |-> FALSE, text |-> <<>>]]

\* trimmed.startsWith('## <section>'): the section the line opens, None
\* when it opens none; a word that starts with a section name opens it too
SectionWords ==
  [n \in SectionNames |-> n] @@ ("prompts" :> "prompt")

HeaderOf(line) ==
  LET trimmed == toLowerCase(Trim(line)) IN
  IF /\ Len(trimmed) >= 3
     /\ trimmed[1] = "##" /\ trimmed[2] = "SP"
     /\ trimmed[3] \in DOMAIN SectionWords
  THEN SectionWords[trimmed[3]]
  ELSE None

\* trimmed.startsWith('#')
StartsWithHash(line) ==
  Trim(line) # <<>> /\ Trim(line)[1] \in {"#", "##"}

saveSection(sections, section, content) ==
  IF section # None /\ Len(content) > 0
  THEN [sections EXCEPT ![section] = [has |-> TRUE, text |-> Trim(TextOf(content))]]
  ELSE sections

\* the loop of extractSections over the remaining lines
RECURSIVE SectionLoop(_, _, _, _)
SectionLoop(lines, currentSection, currentContent, sections) ==
  IF lines = <<>> THEN saveSection(sections, currentSection, currentContent)
  ELSE IF HeaderOf(Head(lines)) # None
       THEN SectionLoop(Tail(lines), HeaderOf(Head(lines)), <<>>,
                        saveSection(sections, currentSection, currentContent))
  ELSE IF StartsWithHash(Head(lines))
       THEN SectionLoop(Tail(lines), currentSection, currentContent, sections)
  ELSE IF currentSection # None
       THEN SectionLoop(Tail(lines), currentSection,
                        Append(currentContent, Head(lines)), sections)
  ELSE SectionLoop(Tail(lines), currentSection, currentContent, sections)

extractSections(lines) == SectionLoop(lines, None, <<>>, NoSections)

\* parsePrompt: [threw, prompt]
parsePrompt(section) ==
  IF ~section.has \/ section.text = <<>> \/ Trim(section.text) = <<>>
  THEN [threw |-> TRUE, prompt |-> <<>>]
  ELSE [threw |-> FALSE, prompt |-> Trim(section.text)]

\* content.split('\n').map((l) => l.trim()).filter(Boolean)
RECURSIVE TrimmedLines(_)
TrimmedLines(ls) ==
  IF ls = <<>> THEN <<>>
  ELSE IF Trim(Head(ls)) = <<>> THEN TrimmedLines(Tail(ls))
       ELSE <<Trim(Head(ls))>> \o TrimmedLines(Tail(ls))

SectionLines(text) == TrimmedLines(Split(text, "NL"))

\* lower.startsWith(prefix), prefix given as lower-case tokens
HasPrefix(line, prefix) == StartsWith(toLowerCase(line), prefix)

\* extractValue for a line that starts with the prefix
extractValue(line, prefix) == Trim(SubSeq(line, Len(prefix) + 1, Len(line)))

\* value.split(',').map((s) => s.trim()).filter((s) => s.length > 0)
parseList(value) == TrimmedLines(Split(value, ","))

VALID_EVENTS ==
  <<"PreToolUse", "PostToolUse", "Stop", "UserPromptSubmit", "SessionStart">>

\* variant: the value is taken as it is written
normalizeEventAsWritten(value) ==
  IF value = <<>> THEN None ELSE value[1]

\* normalizeEvent: the event in its proper case, None for null
normalizeEvent(value) ==
  LET hits == { k \in 1..Len(VALID_EVENTS) :
                  toLowerCase(value) = <<LowerTok(VALID_EVENTS[k])>> }
  IN  IF hits = {} THEN None
      ELSE VALID_EVENTS[CHOOSE k \in hits : \A m \in hits : k <= m]

\* DEFAULT_TRIGGER; files is undefined (hasFiles = FALSE)
DefaultTrigger ==
  [event    |-> "PostToolUse",
   tools    |-> << <<"Edit">>, <<"Write">> >>,
   hasFiles |-> FALSE,
   files    |-> <<>>,
   skip     |-> << <<"node_modules/**">>, <<"**/*.test.ts">>,
                   <<"**/*.spec.ts">> >>]

TriggerLine(trigger, line) ==
  IF HasPrefix(line, <<"-", "SP", "event:">>)
  THEN LET event == normalizeEvent(extractValue(line, <<"-", "SP", "event:">>))
       IN  IF event # None THEN [trigger EXCEPT !.event = event] ELSE trigger
  ELSE IF HasPrefix(line, <<"-", "SP", "tools:">>)
  THEN [trigger EXCEPT
          !.tools = parseList(extractValue(line, <<"-", "SP", "tools:">>))]
  ELSE IF HasPrefix(line, <<"-", "SP", "files:">>)
  THEN [trigger EXCEPT
          !.hasFiles = TRUE,
          !.files = parseList(extractValue(line, <<"-", "SP", "files:">>))]
  ELSE IF HasPrefix(line, <<"-", "SP", "skip:">>)
  THEN [trigger EXCEPT
          !.skip = parseList(extractValue(line, <<"-", "SP", "skip:">>))]
  ELSE trigger

RECURSIVE TriggerLoop(_, _)
TriggerLoop(trigger, ls) ==
  IF ls = <<>> THEN trigger
  ELSE TriggerLoop(TriggerLine(trigger, Head(ls)), Tail(ls))

parseTrigger(section) ==
  IF ~section.has \/ section.text = <<>> THEN DefaultTrigger
  ELSE TriggerLoop(DefaultTrigger, SectionLines(section.text))

\* parseInt(value, 10) of the first word of the value: [nan, n]
IntTable ==
  ("0" :> 0) @@ ("1" :> 1) @@ ("3" :> 3) @@ ("10" :> 10) @@ ("11" :> 11)
  @@ ("-2" :> -2) @@ ("3x" :> 3)

parseInt(value) ==
  IF value # <<>> /\ value[1] \in DOMAIN IntTable
  THEN [nan |-> FALSE, n |-> IntTable[value[1]]]
  ELSE [nan |-> TRUE, n |-> 0]

\* DEFAULT_OPTIONS
DefaultOptions == [failMode |-> "open", maxTurns |-> 1]

OptionLine(options, line) ==
  IF HasPrefix(line, <<"-", "SP", "fail", "SP", "mode:">>)
  THEN LET value ==
             toLowerCase(extractValue(line, <<"-", "SP", "fail", "SP", "mode:">>))
       IN  IF value = <<"open">> THEN [options EXCEPT !.failMode = "open"]
           ELSE IF value = <<"closed">>
                THEN [options EXCEPT !.failMode = "closed"]
                ELSE options
  ELSE IF HasPrefix(line, <<"-", "SP", "max", "SP", "turns:">>)
  THEN LET value ==
             parseInt(extractValue(line, <<"-", "SP", "max", "SP", "turns:">>))
       IN  IF ~value.nan /\ value.n > 0
           THEN [options EXCEPT !.maxTurns = value.n]
           ELSE options
  ELSE options

RECURSIVE OptionLoop(_, _)
OptionLoop(options, ls) ==
  IF ls = <<>> THEN options
  ELSE OptionLoop(OptionLine(options, Head(ls)), Tail(ls))

parseOptions(section) ==
  IF ~section.has \/ section.text = <<>> THEN DefaultOptions
  ELSE OptionLoop(DefaultOptions, SectionLines(section.text))

\* /^##\s+router\s*$/im tried at position i of the text
RouterHeaderAt(text, i) ==
  /\ i = 1 \/ text[i - 1] = "NL"
  /\ text[i] = "##"
  /\ LET n == SpaceRun(SubSeq(text, i + 1, Len(text)))
         h == i + n + 1
     IN  /\ n > 0
         /\ h <= Len(text)
         /\ LowerTok(text[h]) = "router"
         /\ LET rest == SubSeq(text, h + 1, Len(text)) IN
            \E k \in 0..SpaceRun(rest) : k = Len(rest) \/ rest[k + 1] = "NL"

hasRouterSection(lines) ==
  \E i \in 1..Len(TextOf(lines)) : RouterHeaderAt(TextOf(lines), i)

RECURSIVE CallableLoop(_, _)
CallableLoop(callableHooks, ls) ==
  IF ls = <<>> THEN callableHooks
  ELSE IF HasPrefix(Head(ls), <<"-", "SP", "callable:">>)
       THEN CallableLoop(
              parseList(extractValue(Head(ls), <<"-", "SP", "callable:">>)),
              Tail(ls))
       ELSE CallableLoop(callableHooks, Tail(ls))

\* parseRouter: has = FALSE stands for undefined
parseRouter(section, sectionExists) ==
  IF ~section.has /\ ~sectionExists
  THEN [has |-> FALSE, callableHooks |-> <<>>]
  ELSE [has |-> TRUE,
        callableHooks |->
          IF section.has /\ section.text # <<>>
          THEN CallableLoop(<<>>, SectionLines(section.text))
          ELSE <<>>]

\* split('\n\n')[0]
RECURSIVE FirstParagraph(_)
FirstParagraph(s) ==
  IF s = <<>> THEN <<>>
  ELSE IF Len(s) >= 2 /\ s[1] = "NL" /\ s[2] = "NL" THEN <<>>
       ELSE <<Head(s)>> \o FirstParagraph(Tail(s))

\* parseDescription: has = FALSE stands for undefined
parseDescription(section) ==
  IF section.has /\ section.text # <<>> /\ Trim(section.text) # <<>>
  THEN [has |-> TRUE, text |-> Trim(FirstParagraph(Trim(section.text)))]
  ELSE [has |-> FALSE, text |-> <<>>]

RECURSIVE LowerAll(_)
LowerAll(items) ==
  IF items = <<>> THEN <<>>
  ELSE <<toLowerCase(Head(items))>> \o LowerAll(Tail(items))

parseTags(section) ==
  IF ~section.has \/ section.text = <<>> THEN <<>>
  ELSE LowerAll(TrimmedLines(Split(section.text, ",")))

\* what parseMarkdown yields when it throws
NoDefinition ==
  [name |-> <<>>, trigger |-> DefaultTrigger, prompt |-> <<>>,
   options |-> DefaultOptions, description |-> [has |-> FALSE, text |-> <<>>],
   tags |-> <<>>, router |-> [has |-> FALSE, callableHooks |-> <<>>]]

\* parseMarkdown: [threw, error, definition]; optional fields of the
\* definition that are not set have has = FALSE (tags: the empty list)
parseMarkdown(lines) ==
  LET name     == parseName(lines)
      sections == extractSections(lines)
      prompt   == parsePrompt(sections["prompt"])
  IN  IF name.threw
      THEN [threw |-> TRUE, error |-> "Missing hook name",
            definition |-> NoDefinition]
      ELSE IF prompt.threw
      THEN [threw |-> TRUE, error |-> "Missing prompt section",
            definition |-> NoDefinition]
      ELSE [threw |-> FALSE, error |-> None,
            definition |->
              [name        |-> name.name,
               trigger     |-> parseTrigger(sections["trigger"]),
               prompt      |-> prompt.prompt,
               options     |-> parseOptions(sections["options"]),
               description |-> parseDescription(sections["description"]),
               tags        |-> parseTags(sections["tags"]),
               router      |-> parseRouter(sections["router"],
                                           hasRouterSection(lines))]]

(***************************************************************************)
(* Validation of a definition (validateHookDefinition)                     *)
(***************************************************************************)
\* For validation a string is its length and whether it consists of white
\* space only (the empty string does).
Str(length, blank) == [length |-> length, blank |-> blank]

MaxPromptLength == 5000
MinTurns == 1
MaxTurns == 10

NameError(def) ==
  IF def.name.length = 0 \/ def.name.blank
  THEN <<"Hook name is required">> ELSE <<>>

EventError(def) ==
  IF ~Includes(VALID_EVENTS, def.trigger.event)
  THEN <<"Invalid event">> ELSE <<>>

PromptError(def) ==
  IF def.prompt.length = 0 \/ def.prompt.blank
  THEN <<"Prompt is required">> ELSE <<>>

PromptLengthError(def) ==
  IF def.prompt.length > MaxPromptLength
  THEN <<"Prompt too long">> ELSE <<>>

TurnsError(def) ==
  IF def.options.maxTurns < MinTurns \/ def.options.maxTurns > MaxTurns
  THEN <<"Max turns must be between 1 and 10">> ELSE <<>>

ErrorsOf(def) ==
  NameError(def) \o EventError(def) \o PromptError(def)
    \o PromptLengthError(def) \o TurnsError(def)

\* variant: validation stops at the first violation
validateFailFast(def) ==
  [valid  |-> Len(ErrorsOf(def)) = 0,
   errors |-> IF ErrorsOf(def) = <<>> THEN <<>> ELSE <<Head(ErrorsOf(def))>>]

validateHookDefinition(def) ==
  [valid |-> Len(ErrorsOf(def)) = 0, errors |-> ErrorsOf(def)]

(***************************************************************************)
(* Generation of a hook from a definition text (generateHook)              *)
(***************************************************************************)
\* the characters of the words that stand in hook names of definition texts
TokenChars ==
  ("Lint" :> <<"L", "i", "n", "t">>) @@ ("My" :> <<"M", "y">>)
    @@ ("SP" :> <<" ">>) @@ ("!" :> <<"!">>)

\* the characters of a text
RECURSIVE CharsOf(_)
CharsOf(text) ==
  IF text = <<>> THEN <<>>
  ELSE (IF Head(text) \in DOMAIN TokenChars THEN TokenChars[Head(text)]
        ELSE <<Head(text)>>) \o CharsOf(Tail(text))

\* text.length: white space tokens are one character, a word its letters
RECURSIVE LengthOf(_)
LengthOf(text) ==
  IF text = <<>> THEN 0
  ELSE (IF IsSpace(Head(text)) THEN 1 ELSE Len(Head(text)))
         + LengthOf(Tail(text))

\* what validateHookDefinition reads of a string: its length, and
\* trim() === ''
StrOf(text) == Str(LengthOf(text), \A k \in 1..Len(text) : IsSpace(text[k]))

\* the parsed definition as validateHookDefinition reads it
Validated(definition) ==
  [name    |-> StrOf(definition.name),
   trigger |-> [event |-> definition.trigger.event],
   prompt  |-> StrOf(definition.prompt),
   options |-> [maxTurns |-> definition.options.maxTurns]]

\* a file of the output directory: `${slug}.${ext}` and what it holds
File(slug, ext, content) == [slug |-> slug, ext |-> ext, content |-> content]

\* fs.writeFileSync: the file of that name is created or replaced
writeFileSync(files, file) ==
  { f \in files : ~(f.slug = file.slug /\ f.ext = file.ext) } \cup {file}

\* fs.mkdirSync(outputDir, { recursive: true })
mkdirSync(outputDir) == [exists |-> TRUE, files |-> outputDir.files]

\* generateHookCode: router code for a definition with a router config
generateHookCode(definition) ==
  IF definition.router.has THEN "router" ELSE "validator"

\* generateMetadataFile: the record is named by the slug, and so is its file
generateMetadataFile(definition, outputDir) ==
  LET hookSlug == SlugOfChars(CharsOf(definition.name)) IN
  [exists |-> outputDir.exists,
   files  |-> writeFileSync(outputDir.files,
                            File(hookSlug, "meta.json", hookSlug))]

GenerateFailed(error, outputDir) ==
  [threw |-> TRUE, error |-> error, outputPath |-> None,
   metadataPath |-> None, dir |-> outputDir]

\* variant: the output directory is created before the definition is read
generateHookMkdirFirst(content, outputDir) ==
  LET parsed == parseMarkdown(content)
      made   == mkdirSync(outputDir) IN
  IF parsed.threw THEN GenerateFailed(parsed.error, made)
  ELSE
    LET definition == parsed.definition
        validation == validateHookDefinition(Validated(definition)) IN
    IF ~validation.valid
    THEN GenerateFailed("Invalid hook definition", made)
    ELSE
      LET slug    == SlugOfChars(CharsOf(definition.name))
          written == [exists |-> TRUE,
                      files  |-> writeFileSync(made.files,
                                   File(slug, "ts", generateHookCode(definition)))]
      IN  [threw |-> FALSE, error |-> None,
           outputPath |-> [slug |-> slug, ext |-> "ts"],
           metadataPath |-> [slug |-> slug, ext |-> "meta.json"],
           dir |-> generateMetadataFile(definition, written)]

\* generateHook(mdFilePath, outputDir): content is the text of the file,
\* outputDir the directory before the call, dir the directory after it
generateHook(content, outputDir) ==
  LET parsed == parseMarkdown(content) IN
  IF parsed.threw THEN GenerateFailed(parsed.error, outputDir)
  ELSE
    LET definition == parsed.definition
        validation == validateHookDefinition(Validated(definition)) IN
    IF ~validation.valid
    THEN GenerateFailed("Invalid hook definition", outputDir)
    ELSE
      LET slug    == SlugOfChars(CharsOf(definition.name))
          made    == mkdirSync(outputDir)
          written == [exists |-> TRUE,
                      files  |-> writeFileSync(made.files,
                                   File(slug, "ts", generateHookCode(definition)))]
      IN  [threw |-> FALSE, error |-> None,
           outputPath |-> [slug |-> slug, ext |-> "ts"],
           metadataPath |-> [slug |-> slug, ext |-> "meta.json"],
           dir |-> generateMetadataFile(definition, written)]

(***************************************************************************)
(* Child invocation (invokeHook)                                           *)
(***************************************************************************)
\* the texts a child process writes, one token per invocation index
ReasonText(i) == "reason" \o ToString(i)
StderrText(i) == "stderr" \o ToString(i)
SpawnErrText(i) == "spawn-error" \o ToString(i)

\* chunks a child writes to stdout: "log" (text without braces), "{" and
\* "}" (stray braces) and the JSON documents below
DocChunks == {"{}", "{r}", "{b}", "{b,r}"}

\* a document whose decision field holds another value than 'block'
AllowChunks == {"{a}"}

JsonChunks == DocChunks \cup AllowChunks

DocOf(chunk, i) ==
  [decision |-> IF chunk \in {"{b}", "{b,r}"} THEN "block"
                ELSE IF chunk \in AllowChunks THEN "allow" ELSE None,
   reason   |-> IF chunk \in {"{r}", "{b,r}"} THEN <<ReasonText(i)>> ELSE <<>>]

EmptyOutput == [decision |-> None, reason |-> <<>>]

HasOpen(chunk) == chunk = "{" \/ chunk \in JsonChunks
HasClose(chunk) == chunk = "}" \/ chunk \in JsonChunks

\* stdout.match(/\{[\s\S]*\}/) and JSON.parse of the match: from the first
\* opening brace to the last closing brace; anything but a single document
\* fails to parse and leaves the output empty
ParseStdout(stdout, i) ==
  LET opens  == { k \in 1..Len(stdout) : HasOpen(stdout[k]) }
      closes == { k \in 1..Len(stdout) : HasClose(stdout[k]) }
  IN  IF opens = {} \/ closes = {} THEN EmptyOutput
      ELSE LET first == CHOOSE k \in opens : \A m \in opens : k <= m
               last  == CHOOSE k \in closes : \A m \in closes : k >= m
           IN  IF first = last /\ stdout[first] \in JsonChunks
               THEN DocOf(stdout[first], i)
               ELSE EmptyOutput

\* variant: every exit status other than 0 is a block
CrashAlwaysBlock(code, output) ==
  IF code # "0" THEN [output EXCEPT !.decision = "block"] ELSE output

\* if (code !== 0 && !output.decision) output.decision = 'block'
CrashAsBlock(code, output) ==
  IF code # "0" /\ output.decision = None
  THEN [output EXCEPT !.decision = "block"]
  ELSE output

\* the result the 'close' handler resolves with; code is "0", "1" or "null"
\* and stderr a token sequence (<<>> when nothing was written)
CloseResult(hookName, i, code, stdout, stderr) ==
  LET output == CrashAsBlock(code, ParseStdout(stdout, i)) IN
  [settled  |-> TRUE,
   hookName |-> hookName,
   decision |-> output.decision,
   reason   |-> output.reason,
   success  |-> code = "0",
   error    |-> stderr]

\* the result the 'error' handler resolves with
ErrorResult(hookName, i) ==
  [settled  |-> TRUE,
   hookName |-> hookName,
   decision |-> None,
   reason   |-> <<>>,
   success  |-> FALSE,
   error    |-> <<SpawnErrText(i)>>]

\* the result returned when the hook file does not exist
NotFoundResult(hookName) ==
  [settled  |-> TRUE,
   hookName |-> hookName,
   decision |-> None,
   reason   |-> <<>>,
   success  |-> FALSE,
   error    |-> <<"Hook file not found:", hookName>>]

\* a promise of invokeHook that has not been resolved yet
PendingResult(hookName) ==
  [settled  |-> FALSE,
   hookName |-> hookName,
   decision |-> None,
   reason   |-> <<>>,
   success  |-> FALSE,
   error    |-> <<>>]

\* variant: a result is stored in the first slot that is still free, that
\* is in completion order
ResolveInCompletionOrder(res, i, r) ==
  IF res[i].settled THEN res
  ELSE LET free == { k \in 1..Len(res) : ~res[k].settled }
       IN  [res EXCEPT ![CHOOSE k \in free : \A m \in free : k <= m] = r]

\* variant: the close handler resolves only for a successful exit
ResolveOnSuccess(res, i, r) ==
  IF res[i].settled \/ ~r.success THEN res
  ELSE [res EXCEPT ![i] = r]

\* resolve() of promise i: only the first call has an effect
Resolve(res, i, r) ==
  IF res[i].settled THEN res ELSE [res EXCEPT ![i] = r]

\* variant: the join ends as soon as one child has reported block
SettledOrBlocked(res) ==
  \/ \A i \in 1..Len(res) : res[i].settled
  \/ \E i \in 1..Len(res) : res[i].settled /\ res[i].decision = "block"

\* Promise.all is fulfilled once every promise is
AllSettled(res) == \A i \in 1..Len(res) : res[i].settled

(***************************************************************************)
(* Aggregation (router main, step 5; aggregateResults)                     *)
(***************************************************************************)
\* variant: only a child that failed counts as blocking
AnyFailedBlock(res) ==
  \E i \in 1..Len(res) : res[i].decision = "block" /\ ~res[i].success

AnyBlock(res) == \E i \in 1..Len(res) : res[i].decision = "block"

\* the entries one result pushes onto reasons
ReasonsOf(r) ==
  (IF r.reason # <<>> THEN <<r.reason>> ELSE <<>>) \o
  (IF r.error # <<>> THEN << <<"[", r.hookName, "]", "Error:">> \o r.error >> ELSE <<>>)

RECURSIVE CollectReasons(_)
CollectReasons(res) ==
  IF res = <<>> THEN <<>>
  ELSE ReasonsOf(Head(res)) \o CollectReasons(Tail(res))

\* hooksToRun.join(', ')
NameList(names) == Join([i \in 1..Len(names) |-> <<names[i]>>], ",")

AggregateReason(hookName, names, reasons) ==
  IF Len(reasons) > 0
  THEN <<"[", hookName, "]", "Ran">> \o NameList(names) \o <<":">>
         \o Join(reasons, "NLNL")
  ELSE <<"[", hookName, "]", "All validators passed">>

\* the output document of the router after fan-out
AggregateOutput(hookName, names, nDiscovered, res) ==
  [decision |-> IF AnyBlock(res) THEN "block" ELSE None,
   reason   |-> AggregateReason(hookName, names, CollectReasons(res)),
   context  |-> <<"Router discovered", ToString(nDiscovered), "hooks, invoked:">>
                  \o NameList(names)]

\* the entries aggregateResults pushes: the children's own reasons only
RECURSIVE OwnReasons(_)
OwnReasons(res) ==
  IF res = <<>> THEN <<>>
  ELSE (IF Head(res).reason # <<>> THEN <<Head(res).reason>> ELSE <<>>)
         \o OwnReasons(Tail(res))

\* aggregateResults of the hook-invoker utility
aggregateResults(res) ==
  [decision |-> IF AnyBlock(res) THEN "block" ELSE None,
   reason   |-> Join(OwnReasons(res), "NLNL"),
   context  |-> <<"Ran", ToString(Len(res)), "validator(s):">>
                  \o NameList([i \in 1..Len(res) |-> res[i].hookName])]

(***************************************************************************)
(* Inputs of the model                                                     *)
(***************************************************************************)
Kinds == {"standard", "router"}
FailModes == {"open", "closed"}

\* TRIGGER of the generated hook: tools, files and skip as in the bundled
\* definitions, and a trigger with a skip pattern only
Triggers ==
  { [tools |-> <<"Edit", "Write">>,
     files |-> << <<"*", "*", "/", "*", ".", "t", "s">> >>,
     skip  |-> << <<"*", "*", "/", "*", ".", "t", "e", "s", "t", ".", "t", "s">> >>],
    [tools |-> <<>>, files |-> <<>>,
     skip  |-> << <<"*", ".", "t", "e", "s", "t", ".", "t", "s">> >>] }

AppPath == <<"s", "/", "a", ".", "t", "s">>
TestPath == <<"s", "/", "a", ".", "t", "e", "s", "t", ".", "t", "s">>

\* what arrives on stdin: nothing, white space, text that is not JSON, the
\* JSON value null, or an input object
Stdins ==
  { [kind |-> k, tool_name |-> None, file_path |-> <<>>] :
      k \in {"empty", "blank", "garbage", "null"} }
  \cup
  { [kind |-> "object", tool_name |-> "Edit", file_path |-> AppPath],
    [kind |-> "object", tool_name |-> "Edit", file_path |-> TestPath],
    [kind |-> "object", tool_name |-> None, file_path |-> <<>>] }

MetaFile(n) == [isMeta |-> TRUE, name |-> n]

\* states of the generated directory
Dirs ==
  { [readable |-> FALSE, files |-> <<>>],
    [readable |-> TRUE, files |-> <<>>],
    [readable |-> TRUE,
     files |-> << MetaFile("myrouter"), [isMeta |-> FALSE, name |-> "sec"],
                  MetaFile(None) >>],
    [readable |-> TRUE,
     files |-> << MetaFile("dispatch"), MetaFile("qual"), MetaFile(None),
                  MetaFile("myrouter"), MetaFile("sec") >>],
    [readable |-> TRUE,
     files |-> << MetaFile("sec"), [isMeta |-> FALSE, name |-> "qual"] >>] }

RouterNames == {"myrouter", "Dispatch"}
CallableLists == {<<>>, <<"sec">>}

\* values of the JSON arrays the routing oracle returns
ArrayValues == {"sec", "qual", "ghost", "1"}

ArrayText(vals) ==
  <<"[">> \o Join([i \in 1..Len(vals) |-> <<vals[i]>>], ",") \o <<"]">>

\* texts the routing oracle returns
RoutingTexts ==
  { ArrayText(v) : v \in SeqsUpTo(ArrayValues, MaxSel) }
  \cup
  { ArrayText(<<"sec", "qual">>),
    ArrayText(<<"qual", "sec">>),
    ArrayText(<<"sec", "sec">>),
    ArrayText(<<"sec", "qual", "sec">>),
    ArrayText(<<"ghost", "sec">>),
    ArrayText(<<"qual", "ghost">>),
    ArrayText(<<"sec", "1">>),
    <<>>,
    <<"text">>,
    <<"text", "[", "sec", "]", "text">>,
    <<"[", "sec", ",", "]">>,
    <<"[", "sec">>,
    <<"]", "sec", "[">>,
    <<"[", "[", "sec", "]", "]">>,
    <<"[", "text", "]">>,
    <<"[", "]", "[", "sec", "]">>,
    <<"[", "NL", "qual", "NL", "]">> }

\* what the query() of a call yields
Stream(threw, hasResult, result, parts) ==
  [threw |-> threw, hasResult |-> hasResult, result |-> result, parts |-> parts]

RoutingStreams ==
  { Stream(TRUE, FALSE, <<>>, <<>>), Stream(FALSE, FALSE, <<>>, <<>>),
    Stream(FALSE, FALSE, <<>>, << <<"[", "sec">>, <<"]">> >>) }
  \cup { Stream(FALSE, TRUE, t, <<>>) : t \in RoutingTexts }
  \cup { Stream(FALSE, TRUE, t, << <<"text">> >>) : t \in RoutingTexts }
  \cup { Stream(FALSE, FALSE, <<>>, <<t>>) : t \in RoutingTexts }

\* texts the validation oracle returns
ValidatorTexts ==
  { <<"DECISION:", "SP", "BLOCK", "NL", "REASON:", "SP", "text">>,
    <<"DECISION:", "SP", "ALLOW", "NL", "REASON:", "SP", "text">>,
    <<"decision:", "block">>,
    <<"text", "SP", "block">>,
    <<"BLOCK", "SP", "text", "SP", "ALLOW">>,
    <<"DECISION:", "SP", "BLOCK", "SP", "text", "SP", "allow">>,
    <<"NL", "text", "NL">>,
    <<"REASON:", "SP">>,
    <<>> }

ValidatorStreams ==
  { Stream(TRUE, FALSE, <<>>, <<>>), Stream(FALSE, FALSE, <<>>, <<>>) }
  \cup { Stream(FALSE, TRUE, t, <<>>) : t \in ValidatorTexts }
  \cup { Stream(FALSE, FALSE, <<>>, <<t>>) : t \in ValidatorTexts }

ExitCodes == {"0", "1", "null"}

Stdouts ==
  { <<>>, <<"log">>, <<"{">>, <<"log", "{b,r}", "log">>, <<"{r}", "{b}">>,
    <<"{b,r}", "{">>, <<"}", "{b,r}">> }
  \cup { <<d>> : d \in DocChunks }

(***************************************************************************)
(* State                                                                   *)
(***************************************************************************)
VARIABLES
  kind,          \* "standard" or "router": which main runs
  HOOK_NAME,     \* name of the hook definition
  failMode,      \* OPTIONS.failMode
  TRIGGER,       \* the embedded trigger
  callableHooks, \* router.callableHooks of the definition
  dir,           \* content of GENERATED_DIR
  stdin,         \* what the run reads from stdin
  pc,            \* position of main
  out,           \* documents written to stdout by console.log
  cachedHooks,   \* cache of discoverHooks: [isNull, hooks]
  oracleCalls,   \* number of query() calls made
  oracleState,   \* the call of callClaude: "idle", "pending", "returned", "threw"
  response,      \* text returned by callClaude
  hooksToRun,    \* the selected validators
  proc,          \* per invocation: state of the child process
  results,       \* per invocation: the promise of invokeHook
  fnCall,        \* a function of the program and the arguments it is called with
  fnDone,        \* whether that call has returned
  fnRet          \* what it returned

vars == <<kind, HOOK_NAME, failMode, TRIGGER, callableHooks, dir, stdin, pc,
          out, cachedHooks, oracleCalls, oracleState, response, hooksToRun,
          proc, results, fnCall, fnDone, fnRet>>

\* what a run of main never changes
config == <<kind, HOOK_NAME, failMode, TRIGGER, callableHooks, dir, stdin,
            fnCall, fnDone, fnRet>>

NoCall == [fn |-> "none"]

HOOK_ALLOWLIST == AllowlistOf(callableHooks)

Init ==
  /\ kind \in Kinds
  /\ failMode \in FailModes
  /\ TRIGGER \in Triggers
  /\ stdin \in Stdins
  /\ IF kind = "router"
     THEN /\ HOOK_NAME \in RouterNames
          /\ callableHooks \in CallableLists
          /\ dir \in Dirs
     ELSE /\ HOOK_NAME = "sec"
          /\ callableHooks = <<>>
          /\ dir = [readable |-> TRUE, files |-> <<>>]
  /\ pc = "start"
  /\ out = <<>>
  /\ cachedHooks = [isNull |-> TRUE, hooks |-> <<>>]
  /\ oracleCalls = 0
  /\ oracleState = "idle"
  /\ response = <<>>
  /\ hooksToRun = <<>>
  /\ proc = <<>>
  /\ results = <<>>
  /\ fnCall = NoCall
  /\ fnDone = FALSE
  /\ fnRet = NoCall

(***************************************************************************)
(* Output documents                                                        *)
(***************************************************************************)
\* a document: decision is "block" or None (no field), reason and context
\* are <<>> when the field is missing
Doc(decision, reason, context) ==
  [decision |-> decision, reason |-> reason, context |-> context]

EmptyDoc == Doc(None, <<>>, <<>>)

Tag(hookName) == <<"[", hookName, "]">>

SkippedDoc(hookName) ==
  Doc(None, Tag(hookName) \o <<"Skipped - trigger conditions not met">>, <<>>)

NoneDiscoveredDoc(hookName) ==
  Doc(None, Tag(hookName) \o <<"No validators discovered in", "GENERATED_DIR">>, <<>>)

NoneNeededDoc(hookName) ==
  Doc(None, Tag(hookName) \o <<"No validators needed for this file">>, <<>>)

\* variant: the validator blocks on every error
ValidatorErrorDocClosed(hookName, mode, errorMsg) ==
  Doc("block", Tag(hookName) \o <<"Error (fail-closed):", errorMsg>>,
      <<"Hook error:", errorMsg>>)

\* the catch block of the validator main
ValidatorErrorDoc(hookName, mode, errorMsg) ==
  IF mode = "closed"
  THEN Doc("block", Tag(hookName) \o <<"Error (fail-closed):", errorMsg>>,
           <<"Hook error:", errorMsg>>)
  ELSE Doc(None, Tag(hookName) \o <<"Error (fail-open):", errorMsg>>,
           <<"Hook error (allowed):", errorMsg>>)

\* variant: the router always fails open
RouterErrorDocOpen(hookName, mode, errorMsg) ==
  Doc(None, Tag(hookName) \o <<"Router error (fail-open):", errorMsg>>,
      <<"Router error (allowed):", errorMsg>>)

\* the catch block of the router main
RouterErrorDoc(hookName, mode, errorMsg) ==
  IF mode = "closed"
  THEN Doc("block", Tag(hookName) \o <<"Router error (fail-closed):", errorMsg>>,
           <<"Router error:", errorMsg>>)
  ELSE Doc(None, Tag(hookName) \o <<"Router error (fail-open):", errorMsg>>,
           <<"Router error (allowed):", errorMsg>>)

ErrorDoc(k, hookName, mode, errorMsg) ==
  IF k = "router" THEN RouterErrorDoc(hookName, mode, errorMsg)
  ELSE ValidatorErrorDoc(hookName, mode, errorMsg)

\* the output of the validator main after a successful oracle call
VerdictDoc(hookName, text) ==
  Doc(IF parseDecision(text) = "block" THEN "block" ELSE None,
      Tag(hookName) \o parseReason(text),
      <<"Hook:", hookName, "Claude response:">> \o text)

\* error.message of what callClaude throws
OracleErrorMsg(stream) ==
  IF stream.threw THEN "oracle failure" ELSE "No response from Claude"

(***************************************************************************)
(* Steps of main                                                           *)
(***************************************************************************)
\* variant: the empty document is not written
EmitUnlessEmpty(doc) ==
  /\ out' = IF doc = [decision |-> None, reason |-> <<>>, context |-> <<>>]
            THEN out ELSE Append(out, doc)
  /\ pc' = "done"

\* console.log(doc); return
Emit(doc) ==
  /\ out' = Append(out, doc)
  /\ pc' = "done"

\* the input is empty or white space only (!inputStr.trim())
IsBlankInput(in) == in.kind \in {"empty", "blank"}

\* JSON.parse(inputStr) throws
IsUnparseableInput(in) == in.kind = "garbage"

\* const inputStr = await readStdin(); empty and unparseable input
ReadStdin ==
  /\ pc = "start"
  /\ IF IsBlankInput(stdin) \/ IsUnparseableInput(stdin)
     THEN Emit(EmptyDoc)
     ELSE /\ pc' = "trigger"
          /\ out' = out
  /\ UNCHANGED <<config, cachedHooks, oracleCalls, oracleState, response,
                 hooksToRun, proc, results>>

\* variant: the router goes on to the routing call without discovery
AfterTriggerCall(k) == "call"

\* where main continues after a matching trigger
AfterTrigger(k) == IF k = "router" THEN "discover" ELSE "call"

\* if (!shouldTrigger(input)) ...; reading a field of null throws
TriggerCheck ==
  /\ pc = "trigger"
  /\ IF stdin.kind = "null"
     THEN Emit(ErrorDoc(kind, HOOK_NAME, failMode, "TypeError"))
     ELSE IF ~shouldTrigger(stdin, TRIGGER)
          THEN Emit(SkippedDoc(HOOK_NAME))
          ELSE /\ pc' = AfterTrigger(kind)
               /\ out' = out
  /\ UNCHANGED <<config, cachedHooks, oracleCalls, oracleState, response,
                 hooksToRun, proc, results>>

\* variant: the empty check is missing
NoneDiscoveredNever(hooks) == FALSE

\* if (discoveredHooks.length === 0)
NoneDiscovered(hooks) == Len(hooks) = 0

\* Step 1 of the router: discoverHooks() and the empty check
Discover ==
  /\ pc = "discover"
  /\ LET hooks == IF cachedHooks.isNull
                  THEN discoverHooks(dir, HOOK_NAME, HOOK_ALLOWLIST)
                  ELSE cachedHooks.hooks
     IN  /\ cachedHooks' = [isNull |-> FALSE, hooks |-> hooks]
         /\ IF NoneDiscovered(hooks)
            THEN Emit(NoneDiscoveredDoc(HOOK_NAME))
            ELSE /\ pc' = "call"
                 /\ out' = out
  /\ UNCHANGED <<config, oracleCalls, oracleState, response, hooksToRun,
                 proc, results>>

\* callClaude(prompt): the query is issued
CallClaude ==
  /\ pc = "call"
  /\ oracleCalls' = oracleCalls + 1
  /\ oracleState' = "pending"
  /\ pc' = "oracle"
  /\ UNCHANGED <<config, out, cachedHooks, response, hooksToRun, proc, results>>

\* the oracle call of a standard validator ends
ValidatorOracleDone ==
  /\ pc = "oracle"
  /\ kind = "standard"
  /\ \E stream \in ValidatorStreams :
       IF callClaudeThrows(stream)
       THEN /\ oracleState' = "threw"
            /\ Emit(ValidatorErrorDoc(HOOK_NAME, failMode, OracleErrorMsg(stream)))
            /\ response' = response
       ELSE /\ oracleState' = "returned"
            /\ response' = callClaudeText(stream)
            /\ Emit(VerdictDoc(HOOK_NAME, callClaudeText(stream)))
  /\ UNCHANGED <<config, cachedHooks, oracleCalls, hooksToRun, proc, results>>

\* if (hooksToRun.length === 0)
NoneSelected(names) == Len(names) = 0

\* what spawning a child can lead to: the hook file is missing (no spawn), a
\* process that will close, a process that never closes, a failed spawn
SpawnStates == {"nofile", "running", "hung", "failed"}

\* hookNames.map((name) => invokeHook(name, input)): one promise per name,
\* already resolved when the hook file does not exist
InvokeAll(names, ps) ==
  [i \in 1..Len(names) |->
     IF ps[i] = "nofile" THEN NotFoundResult(names[i]) ELSE PendingResult(names[i])]

\* Steps 3 and 4 of the router: the routing call ends, the response is
\* parsed and the selected hooks are invoked
RouterOracleDone ==
  /\ pc = "oracle"
  /\ kind = "router"
  /\ \E stream \in RoutingStreams :
       IF callClaudeThrows(stream)
       THEN /\ oracleState' = "threw"
            /\ Emit(RouterErrorDoc(HOOK_NAME, failMode, OracleErrorMsg(stream)))
            /\ UNCHANGED <<response, hooksToRun, proc, results>>
       ELSE LET text  == callClaudeText(stream)
                names == parseHookList(text, cachedHooks.hooks)
            IN  /\ oracleState' = "returned"
                /\ response' = text
                /\ hooksToRun' = names
                /\ IF NoneSelected(names)
                   THEN /\ Emit(NoneNeededDoc(HOOK_NAME))
                        /\ UNCHANGED <<proc, results>>
                   ELSE /\ \E ps \in [1..Len(names) -> SpawnStates] :
                             /\ proc' = ps
                             /\ results' = InvokeAll(names, ps)
                        /\ pc' = "await"
                        /\ out' = out
  /\ UNCHANGED <<config, cachedHooks, oracleCalls>>

Stderrs(i) == {<<>>, <<StderrText(i)>>}

\* child.on('close') of a process that ran
ChildClose(i) ==
  /\ i \in 1..Len(proc)
  /\ proc[i] = "running"
  /\ \E code \in ExitCodes, stdout \in Stdouts, stderr \in Stderrs(i) :
       results' = Resolve(results, i,
                          CloseResult(hooksToRun[i], i, code, stdout, stderr))
  /\ proc' = [proc EXCEPT ![i] = "exited"]
  /\ UNCHANGED <<config, pc, out, cachedHooks, oracleCalls, oracleState,
                 response, hooksToRun>>

\* child.on('error') after a failed spawn
ChildError(i) ==
  /\ i \in 1..Len(proc)
  /\ proc[i] \in {"failed", "failedC"}
  /\ results' = Resolve(results, i, ErrorResult(hooksToRun[i], i))
  /\ proc' = [proc EXCEPT ![i] = IF proc[i] = "failed" THEN "failedE" ELSE "failedEC"]
  /\ UNCHANGED <<config, pc, out, cachedHooks, oracleCalls, oracleState,
                 response, hooksToRun>>

\* child.on('close') after a failed spawn: it may come before or after the
\* 'error' event, with a non-zero code and nothing captured
SpawnFailClose(i) ==
  /\ i \in 1..Len(proc)
  /\ proc[i] \in {"failed", "failedE"}
  /\ \E code \in ExitCodes \ {"0"} :
       results' = Resolve(results, i,
                          CloseResult(hooksToRun[i], i, code, <<>>, <<>>))
  /\ proc' = [proc EXCEPT ![i] = IF proc[i] = "failed" THEN "failedC" ELSE "failedEC"]
  /\ UNCHANGED <<config, pc, out, cachedHooks, oracleCalls, oracleState,
                 response, hooksToRun>>

\* Step 5 of the router: Promise.all is fulfilled, the results are
\* aggregated and the output is written
Aggregate ==
  /\ pc = "await"
  /\ AllSettled(results)
  /\ Emit(AggregateOutput(HOOK_NAME, hooksToRun, Len(cachedHooks.hooks), results))
  /\ UNCHANGED <<config, cachedHooks, oracleCalls, oracleState, response,
                 hooksToRun, proc, results>>

MainStep ==
  \/ ReadStdin
  \/ TriggerCheck
  \/ Discover
  \/ CallClaude
  \/ ValidatorOracleDone
  \/ RouterOracleDone
  \/ Aggregate

ChildStep ==
  \E i \in 1..Len(proc) : ChildClose(i) \/ ChildError(i) \/ SpawnFailClose(i)

Next == MainStep \/ ChildStep

Spec == Init /\ [][Next]_vars

\* every step that can be taken is eventually taken; a process in state
\* "hung" has no step
FairSpec == Spec /\ WF_vars(Next)

(***************************************************************************)
(* The functions of the program, called on their own                       *)
(***************************************************************************)
\* stdout of a child, with documents whose decision is not 'block'
CloseStdouts ==
  Stdouts \cup {<<"{a}">>, <<"log", "{a}">>, <<"{a}", "}">>}

CloseCalls ==
  { [fn |-> "close", code |-> c, stdout |-> o, stderr |-> e] :
      c \in ExitCodes, o \in CloseStdouts, e \in Stderrs(1) }

\* a router definition, its callableHooks, and the other definitions that
\* are generated into the same directory
OtherDefinitions ==
  { <<>>, <<"sec">>, <<"qual", "sec">>, <<"ghost", "Sec Scan!">>,
    <<"myrouter", "qual">>, <<"ghost", "qual", "sec", "Sec Scan!">> }

DiscoverCalls ==
  { [fn |-> "discover", router |-> r, callable |-> c, others |-> o] :
      r \in RouterNames,
      c \in CallableLists \cup {<<"sec-scan", "ghost">>, <<"dispatch", "sec">>},
      o \in OtherDefinitions }

\* glob patterns
GlobAllTs == <<"*", "*", "/", "*", ".", "t", "s">>
GlobAllTests == <<"*", "*", "/", "*", ".", "t", "e", "s", "t", ".", "t", "s">>
GlobTs == <<"*", ".", "t", "s">>
GlobTests == <<"*", ".", "t", "e", "s", "t", ".", "t", "s">>
GlobInS == <<"s", "/", "*", ".", "t", "s">>
GlobOneChar == <<"?", ".", "t", "s">>
GlobStars == <<"*", "*">>
GlobMd == <<"*", ".", "m", "d">>

\* file paths: a bare file name, nested paths, a path ending in '/'
BarePath == <<"a", ".", "t", "s">>
BareTestPath == <<"a", ".", "t", "e", "s", "t", ".", "t", "s">>
DeepTestPath == <<"s", "/", "d", "/", "a", ".", "t", "e", "s", "t", ".", "t", "s">>
DirPath == <<"s", "/">>
DocPath == <<"s", "/", "a", ".", "m", "d">>

Patterns ==
  {GlobAllTs, GlobAllTests, GlobTs, GlobTests, GlobInS, GlobOneChar,
   GlobStars, GlobMd}

Paths == {AppPath, TestPath, BarePath, BareTestPath, DeepTestPath, DirPath,
          DocPath}

MatchCalls ==
  { [fn |-> "matchesAnyPattern", filePath |-> f, patterns |-> ps] :
      f \in Paths,
      ps \in { <<q>> : q \in Patterns }
              \cup {<<>>, <<GlobMd, GlobTs>>, <<GlobAllTests, GlobInS>>} }

TriggerCalls ==
  { [fn |-> "shouldTrigger",
     input |-> [tool_name |-> t, file_path |-> f],
     trigger |-> [tools |-> ts, files |-> fs, skip |-> sk]] :
      t \in {None, "Edit", "Bash"},
      f \in {<<>>, AppPath, TestPath, BarePath, BareTestPath},
      ts \in {<<>>, <<"Edit", "Write">>},
      fs \in {<<>>, <<GlobAllTs>>, <<GlobMd>>},
      sk \in {<<>>, <<GlobAllTests>>, <<GlobTests>>, <<GlobAllTs>>} }

\* texts given to parseResponse: those of the validator runs, and texts
\* with 'DECISION:BLOCK' written without a space
ResponseTexts ==
  ValidatorTexts \cup
  { <<"DECISION:", "BLOCK">>,
    <<"DECISION:", "BLOCK", "NL", "REASON:", "SP", "text", "SP", "allow">>,
    <<"decision:", "block", "SP", "ALLOW">>,
    <<"DECISION:", "NL", "BLOCK", "SP", "allow">>,
    <<"allow">>,
    <<"text">> }

ResponseCalls ==
  { [fn |-> "parseResponse", response |-> t] : t \in ResponseTexts }

\* responses given to both parsers: those above, and explicit allows with
\* the word 'block' elsewhere in the text
BothTexts ==
  ResponseTexts \cup
  { <<"DECISION:", "SP", "ALLOW", "NL", "text", "SP", "block">>,
    <<"decision:", "allow", "SP", "block">>,
    <<"block", "SP", "text", "NL", "allow">>,
    <<"DECISION:", "SP", "ALLOW", "NL", "DECISION:", "BLOCK">>,
    <<"block">> }

BothCalls ==
  { [fn |-> "parseBoth", response |-> t] : t \in BothTexts }

\* the lines of the name header: present, followed by a blank line, without
\* a name, missing, in lower case, broken over two lines, with a longer name
HeaderParts ==
  { <<<<"#", "SP", "Hook:", "SP", "Lint">>>>,
    <<<<"#", "SP", "Hook:", "SP", "Lint">>, <<>>>>,
    <<<<"#", "SP", "Hook:">>>>,
    <<<<"#", "SP", "Hook:", "SP">>>>,
    <<<<"#", "SP", "Hook:">>, <<>>>>,
    <<>>,
    <<<<"#", "SP", "hook:", "SP", "Lint">>>>,
    <<<<"#">>, <<"Hook:", "SP", "Lint">>>>,
    <<<<"#", "SP", "Hook:", "SP", "My", "SP", "Lint", "SP">>>>,
    <<<<"#", "SP", "Hook:", "SP", "!">>>> }

\* the lines of the prompt section: present, missing, without content, with
\* lines that start with '#'
PromptParts ==
  { <<<<"##", "SP", "Prompt">>, <<"check">>>>,
    <<<<"##", "SP", "PROMPT">>, <<>>, <<"check", "SP", "it">>, <<"more">>, <<>>>>,
    <<>>,
    <<<<"##", "SP", "Prompt">>>>,
    <<<<"##", "SP", "Prompt">>, <<"SP">>, <<>>>>,
    <<<<"##", "SP", "Prompt">>, <<"#", "SP", "check">>>>,
    <<<<"##", "SP", "Prompt">>, <<"check">>, <<"#", "SP", "Notes">>, <<"more">>>>,
    <<<<"##", "SP", "Prompt">>, <<"check">>, <<"##", "SP", "Notes">>, <<"more">>>> }

\* the lines of the other sections
OtherParts ==
  { <<>>,
    <<<<"##", "SP", "Trigger">>, <<"-", "SP", "Event:", "SP", "Stop">>, <<"-", "SP", "Tools:", "SP", "Edit", "SP", ",", "SP", "Bash">>, <<"-", "SP", "Files:", "SP", "**/*.ts">>, <<"-", "SP", "Skip:">>>>,
    <<<<"##", "SP", "Trigger">>, <<"-", "SP", "Event:", "SP", "bogus">>>>,
    <<<<"##", "SP", "Trigger">>, <<"-", "SP", "event:", "SP", "STOP">>, <<"-", "SP", "Event:", "SP", "bogus">>, <<>>>>,
    <<<<"##", "SP", "Trigger">>, <<"-", "SP", "Event:", "SP", "sessionstart">>, <<"-", "SP", "Event:">>, <<"SP", "-", "SP", "event:", "SP", "PreToolUse", "SP">>, <<"-", "SP", "Event:", "SP", "Stop", "SP", "Now">>>>,
    <<<<"##", "SP", "Options">>, <<"-", "SP", "Fail", "SP", "Mode:", "SP", "CLOSED">>, <<"-", "SP", "Max", "SP", "Turns:", "SP", "3">>>>,
    <<<<"##", "SP", "Options">>, <<"-", "SP", "Max", "SP", "Turns:", "SP", "11">>, <<"-", "SP", "Fail", "SP", "Mode:", "SP", "never">>>>,
    <<<<"##", "SP", "Options">>, <<"-", "SP", "Max", "SP", "Turns:", "SP", "0">>>>,
    <<<<"##", "SP", "Options">>, <<"-", "SP", "Max", "SP", "Turns:", "SP", "-2">>>>,
    <<<<"##", "SP", "Options">>, <<"-", "SP", "Max", "SP", "Turns:", "SP", "3x">>, <<"-", "SP", "Max", "SP", "Turns:", "SP", "x">>>>,
    <<<<"##", "SP", "Router">>>>,
    <<<<"##", "SP", "ROUTER", "SP">>, <<"-", "SP", "Callable:", "SP", "sec", ",", "SP", "qual">>>>,
    <<<<"##", "SP", "Router", "SP", "Notes">>, <<"-", "SP", "Callable:", "SP", "sec">>>>,
    <<<<"##", "SP", "Router", "SP", "Notes">>>>,
    <<<<"SP", "##", "SP", "Router">>>>,
    <<<<"SP", "##", "SP", "Router">>, <<"-", "SP", "callable:", "SP", "qual">>, <<"-", "SP", "Callable:">>>>,
    <<<<"##", "SP", "Description">>, <<"lints">>, <<>>, <<"more">>>>,
    <<<<"##", "SP", "Tags">>, <<"Lint", ",", "SP", ",", "SP", "style">>>> }

\* definition texts: the header first or last, the prompt before or after
\* the other sections
DefinitionTexts ==
  { h \o o \o q : h \in HeaderParts, o \in OtherParts, q \in PromptParts }
  \cup { h \o q \o o : h \in HeaderParts, o \in OtherParts, q \in PromptParts }
  \cup { q \o h : h \in HeaderParts, q \in PromptParts }

ParseCalls == { [fn |-> "parseMarkdown", content |-> t] : t \in DefinitionTexts }

\* definitions given to validateHookDefinition: names and prompts that are
\* empty, blank or not, prompts around the maximal length, events in and
\* outside the enumeration, turns around both limits
ValidateNames == {Str(0, TRUE), Str(2, TRUE), Str(4, FALSE)}

ValidatePrompts ==
  { Str(0, TRUE), Str(3, TRUE), Str(5, FALSE),
    Str(MaxPromptLength, FALSE), Str(MaxPromptLength + 1, FALSE),
    Str(MaxPromptLength + 1, TRUE) }

ValidateEvents == {"Stop", "PostToolUse", "bogus"}

ValidateTurns ==
  {MinTurns - 3, MinTurns - 1, MinTurns, MinTurns + 4, MaxTurns, MaxTurns + 1}

ValidateCalls ==
  { [fn |-> "validateHookDefinition",
     def |-> [name |-> n, trigger |-> [event |-> e], prompt |-> q,
              options |-> [maxTurns |-> t]]] :
      n \in ValidateNames, e \in ValidateEvents, q \in ValidatePrompts,
      t \in ValidateTurns }

\* output directories: missing, empty, holding the files of an earlier
\* generation of 'Lint', holding another file
OutputDirs ==
  { [exists |-> FALSE, files |-> {}],
    [exists |-> TRUE, files |-> {}],
    [exists |-> TRUE,
     files  |-> {File(<<"l", "i", "n", "t">>, "ts", "old"),
                 File(<<"l", "i", "n", "t">>, "meta.json", "old")}],
    [exists |-> TRUE, files |-> {File(<<"s", "e", "c">>, "ts", "old")}] }

GenerateTexts ==
  { h \o o \o q : h \in HeaderParts, o \in OtherParts, q \in PromptParts }

GenerateCalls ==
  { [fn |-> "generateHook", content |-> t, outputDir |-> d] :
      t \in GenerateTexts, d \in OutputDirs }

\* one selected validator and what becomes of its invocation: its file is
\* missing, the 'error' event of its process comes first, or 'close' does
FanOutCalls ==
  { [fn |-> "fanOut", how |-> h, code |-> "null", stdout |-> <<>>,
     stderr |-> <<>>] : h \in {"nofile", "error"} }
  \cup { [fn |-> "fanOut", how |-> "close", code |-> c, stdout |-> o,
          stderr |-> e] :
           c \in ExitCodes, o \in CloseStdouts, e \in Stderrs(1) }

UnitCalls ==
  CloseCalls \cup DiscoverCalls \cup MatchCalls \cup TriggerCalls
    \cup ResponseCalls \cup ParseCalls \cup ValidateCalls
    \cup GenerateCalls \cup FanOutCalls \cup BothCalls

\* a generated router whose main is not running; one call is made
UnitInit ==
  /\ kind = "router"
  /\ HOOK_NAME = "myrouter"
  /\ failMode \in FailModes
  /\ TRIGGER \in Triggers
  /\ callableHooks = <<>>
  /\ dir = [readable |-> TRUE, files |-> <<>>]
  /\ stdin = [kind |-> "empty", tool_name |-> None, file_path |-> <<>>]
  /\ pc = "start"
  /\ out = <<>>
  /\ cachedHooks = [isNull |-> TRUE, hooks |-> <<>>]
  /\ oracleCalls = 0
  /\ oracleState = "idle"
  /\ response = <<>>
  /\ hooksToRun = <<>>
  /\ proc = <<>>
  /\ results = <<>>
  /\ fnCall \in UnitCalls
  /\ fnDone = FALSE
  /\ fnRet = NoCall

main == <<kind, HOOK_NAME, failMode, TRIGGER, callableHooks, dir, stdin, pc,
          out, cachedHooks, oracleCalls, oracleState, response, hooksToRun,
          proc, results>>

Returns(fn, value) ==
  /\ ~fnDone
  /\ fnCall.fn = fn
  /\ fnRet' = value
  /\ fnDone' = TRUE
  /\ UNCHANGED <<main, fnCall>>

\* the 'close' handler of invokeHook for child 1 of the router
CallClose ==
  /\ fnCall.fn = "close"
  /\ Returns("close", CloseResult("sec", 1, fnCall.code, fnCall.stdout,
                                  fnCall.stderr))

\* generate of the router and the other definitions, then discoverHooks
\* in the generated router
CallDiscover ==
  /\ fnCall.fn = "discover"
  /\ Returns("discover",
             discoverHooks(GeneratedDir(<<fnCall.router>> \o fnCall.others),
                           fnCall.router, AllowlistOf(fnCall.callable)))

CallMatchesAnyPattern ==
  /\ fnCall.fn = "matchesAnyPattern"
  /\ Returns("matchesAnyPattern",
             matchesAnyPattern(fnCall.filePath, fnCall.patterns))

CallShouldTrigger ==
  /\ fnCall.fn = "shouldTrigger"
  /\ Returns("shouldTrigger", shouldTrigger(fnCall.input, fnCall.trigger))

CallParseResponse ==
  /\ fnCall.fn = "parseResponse"
  /\ Returns("parseResponse",
             [decision |-> parseDecision(fnCall.response),
              reason   |-> parseReason(fnCall.response)])

CallParseMarkdown ==
  /\ fnCall.fn = "parseMarkdown"
  /\ Returns("parseMarkdown", parseMarkdown(fnCall.content))

CallValidate ==
  /\ fnCall.fn = "validateHookDefinition"
  /\ Returns("validateHookDefinition", validateHookDefinition(fnCall.def))

\* the same response given to parseClaudeResponse of the runtime client
\* and to parseResponse of a generated validator
CallParseBoth ==
  /\ fnCall.fn = "parseBoth"
  /\ Returns("parseBoth",
             [runtime   |-> [decision |-> parseClaudeDecision(fnCall.response),
                             reason   |-> parseReason(fnCall.response)],
              generated |-> [decision |-> parseDecision(fnCall.response),
                             reason   |-> parseReason(fnCall.response)]])

\* steps 4 and 5 of the router for the single selected validator 'sec'
\* out of one discovered: invokeHooksParallel, then the aggregation
CallFanOut ==
  /\ fnCall.fn = "fanOut"
  /\ LET result ==
           CASE fnCall.how = "nofile" -> NotFoundResult("sec")
             [] fnCall.how = "error"  -> ErrorResult("sec", 1)
             [] OTHER -> CloseResult("sec", 1, fnCall.code, fnCall.stdout,
                                     fnCall.stderr)
         settled == Resolve(InvokeAll(<<"sec">>, <<fnCall.how>>), 1, result)
     IN  Returns("fanOut",
                 AggregateOutput(HOOK_NAME, <<"sec">>, 1, <<settled[1]>>))

CallGenerateHook ==
  /\ fnCall.fn = "generateHook"
  /\ Returns("generateHook", generateHook(fnCall.content, fnCall.outputDir))

UnitNext ==
  \/ CallParseBoth
  \/ CallFanOut
  \/ CallGenerateHook
  \/ CallValidate
  \/ CallParseMarkdown
  \/ CallParseResponse
  \/ CallClose
  \/ CallDiscover
  \/ CallMatchesAnyPattern
  \/ CallShouldTrigger

UnitSpec == UnitInit /\ [][UnitNext]_vars

(***************************************************************************)
(* Properties                                                              *)
(***************************************************************************)
\* the router has written its output after a fan-out
Aggregated == kind = "router" /\ pc = "done" /\ Len(results) > 0

\* the child process of invocation i is alive
Alive(i) == proc[i] \in {"running", "hung"}

\* C1: after a fan-out the router's output has decision 'block' if and only
\* if at least one invocation result carries decision 'block' (explicit or
\* crash-as-block); otherwise it has no decision field. The same holds of
\* aggregateResults applied to the results.
C1_BlockIffAnyChildBlocks ==
  Aggregated =>
    /\ Len(out) = 1
    /\ out[1].decision \in {"block", None}
    /\ (out[1].decision = "block") <=>
         (\E i \in 1..Len(results) : results[i].decision = "block")
    /\ (aggregateResults(results).decision = "block") <=>
         (\E i \in 1..Len(results) : results[i].decision = "block")
    /\ aggregateResults(results).decision \in {"block", None}

\* two children, one allows and says so, the other one blocks explicitly
\* with exit status 0: the aggregate blocks
C1_Witness ==
  /\ Aggregated
  /\ Len(results) = 2
  /\ results[1].decision = None /\ results[1].success
  /\ results[2].decision = "block" /\ results[2].success
  /\ out[1].decision = "block"

\* C2 (as claimed): after a fan-out the aggregate reason contains the name
\* of every invoked validator, in invocation order, whether or not the
\* children supplied a reason.
C2_ReasonNamesEveryInvokedHook ==
  Aggregated => IsSubseq(hooksToRun, out[1].reason)

\* the invocation that wrote the text token tok, 0 for any other token
TextOwner(tok) ==
  IF \E i \in 1..Len(results) :
       tok \in {ReasonText(i), StderrText(i), SpawnErrText(i)}
  THEN CHOOSE i \in 1..Len(results) :
         tok \in {ReasonText(i), StderrText(i), SpawnErrText(i)}
  ELSE 0

\* the texts invocation i can contribute
OwnTexts(i) ==
  [reason |-> {<<>>, <<ReasonText(i)>>},
   error  |-> {<<>>, <<StderrText(i)>>, <<SpawnErrText(i)>>,
               <<"Hook file not found:", hooksToRun[i]>>}]

\* the child texts of a reason appear in invocation order
InInvocationOrder(reason) ==
  \A a, b \in 1..Len(reason) :
    (a < b /\ TextOwner(reason[a]) # 0 /\ TextOwner(reason[b]) # 0)
      => TextOwner(reason[a]) <= TextOwner(reason[b])

\* C3: whatever the order in which the children complete, slot i of the
\* results holds the result of invocation i of the selected list, and the
\* child reasons and error texts of the aggregate reason are in the order
\* of that list, each child's reason before its error text.
C3_ReasonsInInvocationOrder ==
  /\ Len(results) \in {0, Len(hooksToRun)}
  /\ \A i \in 1..Len(results) :
       /\ results[i].hookName = hooksToRun[i]
       /\ results[i].reason \in OwnTexts(i).reason
       /\ results[i].error \in OwnTexts(i).error
  /\ Aggregated =>
       /\ InInvocationOrder(out[1].reason)
       /\ \A i \in 1..Len(results) :
            /\ results[i].reason # <<>> => Contains(out[1].reason, results[i].reason)
            /\ results[i].error # <<>> =>
                 Contains(out[1].reason,
                          <<"[", hooksToRun[i], "]", "Error:">> \o results[i].error)
            /\ (results[i].reason # <<>> /\ results[i].error # <<>>) =>
                 Contains(out[1].reason,
                          results[i].reason \o <<"NLNL", "[", hooksToRun[i], "]", "Error:">>
                            \o results[i].error)

\* the second child has completed with a reason while the first one is
\* still running
C3_Witness ==
  /\ pc = "await"
  /\ Len(results) = 2
  /\ hooksToRun = <<"sec", "qual">>
  /\ proc[1] = "running" /\ ~results[1].settled
  /\ results[2].settled /\ results[2].reason # <<>> /\ results[2].error # <<>>

\* C4: the router writes its output only when no invoked child is alive and
\* every invocation has its result; a child that reported block does not
\* end the wait for the others.
C4_AllCompleteBarrier ==
  (kind = "router" /\ Len(out) > 0 /\ Len(hooksToRun) > 0) =>
    /\ Len(proc) = Len(hooksToRun)
    /\ Len(results) = Len(hooksToRun)
    /\ \A i \in 1..Len(proc) : ~Alive(i) /\ results[i].settled

\* one child has reported block, the other one is still running, and the
\* router has not written anything
C4_Witness ==
  /\ pc = "await"
  /\ Len(results) = 2
  /\ results[1].settled /\ results[1].decision = "block"
  /\ proc[2] = "running"
  /\ out = <<>>

\* C5: a run never writes more than one output document, and a run that
\* has ended has written exactly one.
C5_ExactlyOneOutput ==
  /\ Len(out) <= 1
  /\ pc = "done" <=> Len(out) = 1

\* a run that ended in the catch block
C5_Witness ==
  /\ pc = "done"
  /\ stdin.kind = "null"
  /\ Len(out) = 1
  /\ Includes(out[1].reason, "TypeError")

\* C6 (as claimed): every run eventually ends, whatever the invoked
\* children do, a child that never closes included.
C6_AlwaysTerminates == <>(pc = "done")

\* C6 (amended): every run eventually ends unless an invoked child never
\* closes its process; the run of such a child's router never ends.
C6_TerminatesUnlessChildHangs ==
  /\ <>(pc = "done" \/ \E i \in 1..Len(proc) : proc[i] = "hung")
  /\ []((\E i \in 1..Len(proc) : proc[i] = "hung") => pc = "await")

\* a run with two children, none hung, that has ended
C6_Witness ==
  /\ Aggregated
  /\ Len(proc) = 2
  /\ proc[1] = "exited" /\ proc[2] \in {"failedE", "failedC", "failedEC"}

\* C7: when the routing call of a router fails, the run has ended with the
\* output the router's failMode prescribes (closed: decision 'block', open:
\* no decision), the reason is derived from the error, and no child has
\* been invoked.
C7_RoutingFailureByFailMode ==
  (kind = "router" /\ oracleState = "threw") =>
    /\ pc = "done"
    /\ Len(out) = 1
    /\ out[1].decision = (IF failMode = "closed" THEN "block" ELSE None)
    /\ \E msg \in {"oracle failure", "No response from Claude"} :
         out[1].reason =
           <<"[", HOOK_NAME, "]",
             IF failMode = "closed" THEN "Router error (fail-closed):"
                                    ELSE "Router error (fail-open):",
             msg>>
    /\ hooksToRun = <<>> /\ proc = <<>> /\ results = <<>>

\* the routing call of a fail-closed router yielded no text
C7_Witness ==
  /\ kind = "router"
  /\ oracleState = "threw"
  /\ failMode = "closed"
  /\ Len(out) = 1
  /\ Includes(out[1].reason, "No response from Claude")

\* C8 (as claimed): when the routing response does not parse as a JSON
\* array of strings, the run ends by the fail-mode policy: closed ends
\* Blocked, open ends Allowed.
C8_ParseFailureByFailMode ==
  (kind = "router" /\ oracleState = "returned" /\ ~ParsesAsStringArray(response)) =>
    /\ pc = "done"
    /\ Len(out) = 1
    /\ out[1].decision = (IF failMode = "closed" THEN "block" ELSE None)

\* C9: when discovery yields no metadata record, the router has ended
\* Allowed with a reason and without a decision, has made no oracle call
\* and has invoked no child, whatever its failMode.
C9_EmptyDiscoveryAllows ==
  (kind = "router" /\ ~cachedHooks.isNull /\ cachedHooks.hooks = <<>>) =>
    /\ pc = "done"
    /\ Len(out) = 1
    /\ out[1].decision = None
    /\ out[1].reason # <<>>
    /\ oracleCalls = 0 /\ oracleState = "idle"
    /\ hooksToRun = <<>> /\ proc = <<>> /\ results = <<>>

\* a fail-closed router whose directory holds metadata records, all of them
\* excluded
C9_Witness ==
  /\ kind = "router"
  /\ failMode = "closed"
  /\ dir.readable /\ Len(dir.files) > 0
  /\ ~cachedHooks.isNull /\ cachedHooks.hooks = <<>>
  /\ pc = "done"

\* the names of the array the routing oracle returned
OracleArray == ValuesOf(FirstArrayBody(response).body)

\* C10: every selected name is both discovered and in the array the oracle
\* returned; a child exists only for a selected name; the aggregate names
\* exactly the invoked children; an empty selection ends the run Allowed
\* without any invocation.
C10_OnlyDiscoveredAndSelected ==
  kind = "router" =>
    /\ \A i \in 1..Len(hooksToRun) :
         /\ Includes(cachedHooks.hooks, hooksToRun[i])
         /\ Includes(OracleArray, hooksToRun[i])
    /\ Len(proc) \in {0, Len(hooksToRun)}
    /\ Len(proc) = Len(results)
    /\ \A i \in 1..Len(results) : results[i].hookName = hooksToRun[i]
    /\ Aggregated =>
         /\ Contains(out[1].context, <<"hooks, invoked:">> \o NameList(hooksToRun))
         /\ out[1].context[Len(out[1].context)] = hooksToRun[Len(hooksToRun)]
    /\ (oracleState = "returned" /\ hooksToRun = <<>>) =>
         /\ pc = "done"
         /\ Len(out) = 1 /\ out[1].decision = None
         /\ proc = <<>>

\* three validators discovered, the oracle names one of them and an invented
\* one: exactly one child has run
C10_Witness ==
  /\ Aggregated
  /\ cachedHooks.hooks = <<"dispatch", "qual", "sec">>
  /\ response = <<"[", "ghost", ",", "sec", "]">>
  /\ hooksToRun = <<"sec">>
  /\ Len(proc) = 1 /\ proc[1] = "exited"

(***************************************************************************)
(* Properties of the functions called on their own (UnitSpec)              *)
(***************************************************************************)
CloseReturned == fnDone /\ fnCall.fn = "close"

\* what the child's captured stdout holds as its decision field
EmittedDecision == ParseStdout(fnCall.stdout, 1).decision

\* C11: a child that closes with a status other than 0 without a decision
\* field in its output yields decision 'block', whatever the router's
\* failMode is; a child that emitted a decision keeps it, and a child that
\* closes with status 0 keeps what it emitted (nothing included).
C11_CrashAsBlock ==
  CloseReturned =>
    /\ (fnCall.code # "0" /\ EmittedDecision = None)
          => fnRet.decision = "block"
    /\ (fnCall.code # "0" /\ EmittedDecision # None)
          => fnRet.decision = EmittedDecision
    /\ fnCall.code = "0" => fnRet.decision = EmittedDecision
    /\ fnRet.success = (fnCall.code = "0")

C11_Witness ==
  /\ CloseReturned
  /\ failMode = "open"
  /\ fnCall.code = "null"
  /\ fnCall.stdout = <<"log">>
  /\ fnRet.decision = "block"

DiscoverReturned == fnDone /\ fnCall.fn = "discover"

\* the names of the records in the generated directory
GeneratedNames ==
  { slugify(n) : n \in Range(<<fnCall.router>> \o fnCall.others) }

\* C12: the discovered set is exactly the generated records whose name is
\* not the router's own record name, does not contain 'router' and, when
\* callableHooks is non-empty, is listed in it; the record generated for
\* the router itself is never discovered.
C12_DiscoveryExact ==
  DiscoverReturned =>
    /\ Range(fnRet) =
         { n \in GeneratedNames :
             /\ n # slugify(fnCall.router)
             /\ ~IncludesRouter(n)
             /\ Len(fnCall.callable) > 0 => Includes(fnCall.callable, n) }
    /\ ~Includes(fnRet, slugify(fnCall.router))

TriggerReturned == fnDone /\ fnCall.fn = "shouldTrigger"

\* C14: for an input with a file path that matches a skip pattern,
\* shouldTrigger is false, whatever the include patterns are and also when
\* an include pattern matches the same path.
C14_SkipPrecedence ==
  (/\ TriggerReturned
   /\ fnCall.input.file_path # <<>>
   /\ matchesAnyPattern(fnCall.input.file_path, fnCall.trigger.skip))
    => fnRet = FALSE

\* the tool is listed, and the path matches an include and a skip pattern
C14_Witness ==
  /\ TriggerReturned
  /\ fnCall.input = [tool_name |-> "Edit", file_path |-> TestPath]
  /\ fnCall.trigger = [tools |-> <<"Edit", "Write">>, files |-> <<GlobAllTs>>,
                       skip |-> <<GlobAllTests>>]
  /\ matchesAnyPattern(TestPath, <<GlobAllTs>>)
  /\ fnRet = FALSE

\* C15: for an input without a file path the result depends on the tool
\* filter only: false when trigger.tools is non-empty and the tool name is
\* missing or not listed, true when trigger.tools is absent or empty,
\* whatever the skip and include patterns are.
C15_NoFilePath ==
  (TriggerReturned /\ fnCall.input.file_path = <<>>) =>
    fnRet = (\/ Len(fnCall.trigger.tools) = 0
             \/ /\ fnCall.input.tool_name # None
                /\ Includes(fnCall.trigger.tools, fnCall.input.tool_name))

\* no path, no tool filter, and include and skip patterns present
C15_Witness ==
  /\ TriggerReturned
  /\ fnCall.input = [tool_name |-> None, file_path |-> <<>>]
  /\ fnCall.trigger = [tools |-> <<>>, files |-> <<GlobMd>>,
                       skip |-> <<GlobAllTs>>]
  /\ fnRet = TRUE

\* matchesAnyPattern has returned for a single pattern
MatchReturned ==
  fnDone /\ fnCall.fn = "matchesAnyPattern" /\ Len(fnCall.patterns) = 1

\* the positions of a path at which a segment starts
SegmentStarts(f) ==
  { j \in 1..Len(f) : j = 1 \/ f[j - 1] = "/" }

\* the last segments of path f, from position j on, match glob q as a whole
LastSegmentsMatch(f, j, q) ==
  TestAnchored(GlobToRegex(q), SubSeq(f, j, Len(f)))

\* C16 (as claimed): a pattern '**/P' matches every path whose last
\* segments match P, a path without directory component included; so
\* '**/*.test.ts' matches 'a.test.ts' and 's/d/a.test.ts'.
C16_GlobstarZeroSegments ==
  (MatchReturned /\ StartsWith(fnCall.patterns[1], <<"*", "*", "/">>)) =>
    LET q == SubSeq(fnCall.patterns[1], 4, Len(fnCall.patterns[1])) IN
    (\E j \in SegmentStarts(fnCall.filePath) :
        LastSegmentsMatch(fnCall.filePath, j, q))
      => fnRet = TRUE

\* C17 (as claimed): a pattern without '/' matches a path only when the
\* path has no directory component and the whole path matches; so '*.ts'
\* matches 'a.ts' and does not match 's/a.ts'.
C17_NoSlashWholePath ==
  (MatchReturned /\ ~Includes(fnCall.patterns[1], "/")) =>
    fnRet = (/\ ~Includes(fnCall.filePath, "/")
             /\ TestAnchored(GlobToRegex(fnCall.patterns[1]), fnCall.filePath))

\* the segment after the last '/' of a path, the whole path when that
\* segment is empty
BaseName(f) ==
  LET j == CHOOSE k \in SegmentStarts(f) \cup {Len(f) + 1} :
             /\ k = 1 \/ f[k - 1] = "/"
             /\ \A m \in k..Len(f) : f[m] # "/"
  IN  IF j > Len(f) THEN f ELSE SubSeq(f, j, Len(f))

\* C17 (amended): a pattern without '/' matches a path exactly when the
\* path's base name matches the whole pattern; so '*.ts' matches 'a.ts'
\* and 's/a.ts' alike.
C17_NoSlashBaseName ==
  (MatchReturned /\ ~Includes(fnCall.patterns[1], "/")) =>
    fnRet = TestAnchored(GlobToRegex(fnCall.patterns[1]),
                         BaseName(fnCall.filePath))

C17_Witness ==
  /\ MatchReturned
  /\ fnCall.patterns = <<GlobTs>>
  /\ fnCall.filePath = AppPath
  /\ fnRet = TRUE

ResponseReturned == fnDone /\ fnCall.fn = "parseResponse"

\* the case-folded response
Folded == toUpperCase(fnCall.response)

\* C18 (as claimed): the decision is block when the case-folded response
\* contains 'DECISION: BLOCK', also with 'ALLOW' present; otherwise block
\* when it contains 'BLOCK' and not 'ALLOW'; otherwise allow.
C18_DecisionPrecedence ==
  ResponseReturned =>
    fnRet.decision =
      (IF Contains(Folded, <<"DECISION:", "SP", "BLOCK">>) THEN "block"
       ELSE IF Includes(Folded, "BLOCK") /\ ~Includes(Folded, "ALLOW")
            THEN "block"
            ELSE "allow")

\* C18 (amended): the decision is block when the case-folded response
\* contains 'DECISION: BLOCK' or 'DECISION:BLOCK', also with 'ALLOW'
\* present; otherwise block when it contains 'BLOCK' and not 'ALLOW';
\* otherwise allow.
C18_DecisionPrecedenceBothForms ==
  ResponseReturned =>
    fnRet.decision =
      (IF \/ Contains(Folded, <<"DECISION:", "SP", "BLOCK">>)
          \/ Contains(Folded, <<"DECISION:", "BLOCK">>)
       THEN "block"
       ELSE IF Includes(Folded, "BLOCK") /\ ~Includes(Folded, "ALLOW")
            THEN "block"
            ELSE "allow")

\* 'decision:block ALLOW': explicit block without a space, with ALLOW
C18_Witness ==
  /\ ResponseReturned
  /\ fnCall.response = <<"decision:", "block", "SP", "ALLOW">>
  /\ fnRet.decision = "block"

ParseReturned == fnDone /\ fnCall.fn = "parseMarkdown"

\* the lines of the text that are a '# Hook:' name header
HeaderLines(lines) ==
  { k \in 1..Len(lines) : StartsWith(lines[k], <<"#", "SP", "Hook:">>) }

\* the name a header line gives
HeaderName(line) == Trim(SubSeq(line, 4, Len(line)))

\* the lines of the text that are a '## Prompt' section header
PromptHeaders(lines) ==
  { k \in 1..Len(lines) : HeaderOf(lines[k]) = "prompt" }

\* the lines from line k + 1 up to the next section header
RECURSIVE BodyFrom(_, _)
BodyFrom(lines, k) ==
  IF k >= Len(lines) \/ HeaderOf(lines[k + 1]) # None THEN <<>>
  ELSE <<lines[k + 1]>> \o BodyFrom(lines, k + 1)

\* C19 (as claimed): parseMarkdown fails when the text has no '# Hook:'
\* header line or one without a name, and when it has no '## Prompt'
\* section or one without content; a definition it returns has a name
\* taken from a header line and a prompt taken from the prompt section,
\* neither of them empty.
C19_ParseFailsOnMissingParts ==
  ParseReturned =>
    LET lines   == fnCall.content
        headers == HeaderLines(lines)
        prompts == PromptHeaders(lines)
    IN  /\ (\A k \in headers : HeaderName(lines[k]) = <<>>) => fnRet.threw
        /\ (\A k \in prompts : Trim(TextOf(BodyFrom(lines, k))) = <<>>)
              => fnRet.threw
        /\ ~fnRet.threw =>
              /\ fnRet.definition.name # <<>>
              /\ \E k \in headers : fnRet.definition.name = HeaderName(lines[k])
              /\ fnRet.definition.prompt # <<>>
              /\ \E k \in prompts :
                    IsSubseq(fnRet.definition.prompt, TextOf(BodyFrom(lines, k)))

ValidateReturned == fnDone /\ fnCall.fn = "validateHookDefinition"

\* the number of the given conditions that hold
HowMany(conditions) ==
  Cardinality({ k \in 1..Len(conditions) : conditions[k] })

\* C20 (as claimed): valid is true exactly when the name is non-empty, the
\* event is in the enumeration, 0 < prompt.length <= 5000 and
\* 1 <= maxTurns <= 10; a definition that violates exactly one of these
\* four constraints yields exactly one error entry.
C20_ValidIffFourConstraints ==
  ValidateReturned =>
    LET def == fnCall.def
        violated ==
          << def.name.length = 0,
             ~Includes(VALID_EVENTS, def.trigger.event),
             ~(0 < def.prompt.length /\ def.prompt.length <= 5000),
             ~(1 <= def.options.maxTurns /\ def.options.maxTurns <= 10) >>
    IN  /\ fnRet.valid = (HowMany(violated) = 0)
        /\ HowMany(violated) = 1 => Len(fnRet.errors) = 1

\* C20 (amended): valid is true exactly when the name has a character that
\* is not white space, the event is in the enumeration, the prompt has a
\* character that is not white space and at most 5000 characters, and
\* 1 <= maxTurns <= 10; every violation is reported, so a definition that
\* violates exactly one of the four constraints yields one error entry, or
\* two when its prompt is both blank and longer than 5000 characters.
C20_ValidIffNotBlank ==
  ValidateReturned =>
    LET def == fnCall.def
        blankPrompt == def.prompt.blank
        longPrompt  == def.prompt.length > 5000
        violated ==
          << def.name.blank,
             ~Includes(VALID_EVENTS, def.trigger.event),
             blankPrompt \/ longPrompt,
             ~(1 <= def.options.maxTurns /\ def.options.maxTurns <= 10) >>
    IN  /\ fnRet.valid = (HowMany(violated) = 0)
        /\ Len(fnRet.errors) =
             HowMany(violated) + (IF blankPrompt /\ longPrompt THEN 1 ELSE 0)
        /\ HowMany(violated) = 1 =>
             Len(fnRet.errors) = (IF blankPrompt /\ longPrompt THEN 2 ELSE 1)

\* a name of two blanks, everything else in order: one error
C20_Witness ==
  /\ ValidateReturned
  /\ fnCall.def.name = Str(2, TRUE)
  /\ fnCall.def.prompt = Str(5, FALSE)
  /\ fnRet.valid = FALSE
  /\ fnRet.errors = <<"Hook name is required">>

\* the lines of the text that are a Router section header
RouterHeaders(lines) ==
  { k \in 1..Len(lines) : HeaderOf(lines[k]) = "router" }

\* the '- callable:' lines of a section body
CallableLines(body) ==
  { k \in 1..Len(body) : HasPrefix(Trim(body[k]), <<"-", "SP", "callable:">>) }

\* C21 (as claimed): a parsed definition carries a router config exactly
\* when the text has a Router section header, also when that section has
\* no content; callableHooks is the list of the section's '- callable:'
\* line when there is one and empty otherwise; an empty list becomes the
\* null allowlist with which the generated router discovers every hook.
C21_RouterIffHeader ==
  (ParseReturned /\ ~fnRet.threw) =>
    LET lines   == fnCall.content
        routers == RouterHeaders(lines)
        router  == fnRet.definition.router
    IN  /\ router.has = (routers # {})
        /\ routers = {} => router.callableHooks = <<>>
        /\ \A k \in routers :
             (\A m \in routers : m <= k) =>
               LET body == BodyFrom(lines, k) IN
               IF CallableLines(body) = {} THEN router.callableHooks = <<>>
               ELSE \E c \in CallableLines(body) :
                      router.callableHooks =
                        parseList(extractValue(Trim(body[c]),
                                               <<"-", "SP", "callable:">>))
        /\ router.callableHooks = <<>> =>
             AllowlistOf(router.callableHooks).isNull

GenerateReturned == fnDone /\ fnCall.fn = "generateHook"

\* the definition text does not parse or its definition does not validate
Rejected(content) ==
  LET parsed == parseMarkdown(content) IN
  \/ parsed.threw
  \/ ~validateHookDefinition(Validated(parsed.definition)).valid

\* the files of a directory whose name is `${slug}.${ext}`
FilesNamed(d, slug, ext) == { f \in d.files : f.slug = slug /\ f.ext = ext }

\* C22: generateHook fails for every definition text that does not parse or
\* does not validate, and then the output directory is as it was before
\* the call (not created, no file added or replaced); when it succeeds the
\* directory exists and holds the validator artifact and the metadata
\* record, both newly written and both named by the slug of the hook name.
C22_GenerateAllOrNothing ==
  GenerateReturned =>
    /\ Rejected(fnCall.content) =>
         fnRet.threw /\ fnRet.dir = fnCall.outputDir
    /\ ~fnRet.threw =>
         LET slug == SlugOfChars(CharsOf(parseName(fnCall.content).name)) IN
         /\ ~Rejected(fnCall.content)
         /\ fnRet.dir.exists
         /\ fnRet.outputPath = [slug |-> slug, ext |-> "ts"]
         /\ fnRet.metadataPath = [slug |-> slug, ext |-> "meta.json"]
         /\ \E f \in FilesNamed(fnRet.dir, slug, "ts") : f.content # "old"
         /\ FilesNamed(fnRet.dir, slug, "meta.json")
              = {File(slug, "meta.json", slug)}

\* a definition that parses but does not validate was given with an output
\* directory that does not exist yet
C22_Witness ==
  /\ GenerateReturned
  /\ ~parseMarkdown(fnCall.content).threw
  /\ fnRet.threw
  /\ ~fnCall.outputDir.exists

\* the input is empty, white space only, unparseable, or a JSON value that
\* is not an object
MalformedInput(in) ==
  IsBlankInput(in) \/ IsUnparseableInput(in) \/ in.kind # "object"

\* C23 (as claimed): a validator or router whose input is empty, white
\* space only, unparseable or a JSON value that is not an object (null) ends
\* with the empty document {} as its output and without an oracle call, for
\* both fail modes.
C23_MalformedInputEmptyDoc ==
  (pc = "done" /\ MalformedInput(stdin)) =>
    /\ out = <<EmptyDoc>>
    /\ oracleCalls = 0

\* the trigger check of main has returned false / true for the input
TriggerMissed == stdin.kind = "object" /\ ~shouldTrigger(stdin, TRIGGER)
TriggerMatched == stdin.kind = "object" /\ shouldTrigger(stdin, TRIGGER)

\* C24: a router whose trigger check does not match the input never scans
\* the directory, never calls the oracle and never invokes a child, and its
\* run ends with the 'Skipped' document, which has no decision field; in
\* every run a discovery scan has a matching trigger check before it, an
\* oracle call a discovery that found validators, and a child invocation
\* an oracle call that returned.
C24_SkippedIsTerminal ==
  kind = "router" =>
    /\ TriggerMissed =>
         /\ pc \in {"start", "trigger", "done"}
         /\ cachedHooks.isNull
         /\ oracleCalls = 0
         /\ proc = <<>> /\ results = <<>>
         /\ pc = "done" =>
              out = <<SkippedDoc(HOOK_NAME)>> /\ out[1].decision = None
    /\ ~cachedHooks.isNull =>
         TriggerMatched /\ pc \notin {"start", "trigger"}
    /\ oracleCalls > 0 =>
         ~cachedHooks.isNull /\ Len(cachedHooks.hooks) > 0
    /\ Len(proc) > 0 => oracleCalls > 0 /\ oracleState = "returned"

\* a router run that ended as skipped
C24_Witness ==
  /\ kind = "router"
  /\ TriggerMissed
  /\ pc = "done"
  /\ out = <<SkippedDoc(HOOK_NAME)>>

\* C25 (as claimed): the prompt of a returned definition is the text of
\* all lines between the '## Prompt' header and the next recognized section
\* header (or the end of the text), lines that begin with '#' included,
\* with the white space around that text removed.
C25_SectionKeepsAllLines ==
  (ParseReturned /\ ~fnRet.threw) =>
    LET lines == fnCall.content IN
    \A k \in PromptHeaders(lines) :
      PromptHeaders(lines) = {k} =>
        fnRet.definition.prompt = Trim(TextOf(BodyFrom(lines, k)))

FanOutReturned == fnDone /\ fnCall.fn = "fanOut"

\* the captured stdout holds one JSON document between its first opening
\* and its last closing brace
VerdictFound(stdout) ==
  \E k \in 1..Len(stdout) :
    /\ stdout[k] \in JsonChunks
    /\ \A m \in 1..Len(stdout) :
         m # k => ~HasOpen(stdout[m]) /\ ~HasClose(stdout[m])

\* the invocation of the validator failed: file missing, process not
\* started, exit status other than 0, or no verdict in its output
ChildFailed ==
  \/ fnCall.how \in {"nofile", "error"}
  \/ fnCall.code # "0"
  \/ ~VerdictFound(fnCall.stdout)

\* C26 (as claimed): when the invocation of a selected validator fails, the
\* router's aggregate has decision 'block' or its reason holds an error
\* entry naming that validator.
C26_NoFailureDropped ==
  (FanOutReturned /\ ChildFailed) =>
    \/ fnRet.decision = "block"
    \/ Contains(fnRet.reason, <<"[", "sec", "]", "Error:">>)

\* invocation i of the run has started a child process
Spawned(i) == proc[i] # "nofile"

\* C27 (as claimed): in one router run no validator name has two child
\* processes, whatever the routing response is, and the aggregate holds the
\* reason of an invocation at most once per name.
C27_InvokedAtMostOnce ==
  /\ \A i, j \in 1..Len(proc) :
       (i # j /\ Spawned(i) /\ Spawned(j)) => hooksToRun[i] # hooksToRun[j]
  /\ Aggregated =>
       \A i, j \in 1..Len(results) :
         (i # j /\ results[i].reason # <<>> /\ results[j].reason # <<>>)
            => hooksToRun[i] # hooksToRun[j]

\* the lines of the text that are a '## Trigger' section header
TriggerHeaders(lines) ==
  { k \in 1..Len(lines) : HeaderOf(lines[k]) = "trigger" }

\* the lifecycle events by their lower-case spelling
EventSpelled ==
  [ pretooluse |-> "PreToolUse", posttooluse |-> "PostToolUse",
    stop |-> "Stop", userpromptsubmit |-> "UserPromptSubmit",
    sessionstart |-> "SessionStart" ]

\* the event a '- Event:' line names, None when it names none
EventNamed(line) ==
  LET value == extractValue(Trim(line), <<"-", "SP", "event:">>) IN
  IF Len(value) = 1 /\ LowerTok(value[1]) \in DOMAIN EventSpelled
  THEN EventSpelled[LowerTok(value[1])] ELSE None

\* the lines of a section body that are '- Event:' lines naming an event
NamingLines(body) ==
  { m \in 1..Len(body) :
      /\ HasPrefix(Trim(body[m]), <<"-", "SP", "event:">>)
      /\ EventNamed(body[m]) # None }

\* C28: every definition parseMarkdown returns has an event of the
\* lifecycle enumeration, so validateHookDefinition never reports 'Invalid
\* event' for it: the event is the one named by the last '- Event:' line of
\* the trigger section that names an event of the enumeration (in any
\* case), and PostToolUse when there is no such line or no trigger section.
C28_ParsedEventIsValid ==
  (ParseReturned /\ ~fnRet.threw) =>
    LET lines == fnCall.content
        event == fnRet.definition.trigger.event
    IN  /\ Includes(VALID_EVENTS, event)
        /\ ~Includes(validateHookDefinition(Validated(fnRet.definition)).errors,
                     "Invalid event")
        /\ TriggerHeaders(lines) = {} => event = "PostToolUse"
        /\ \A k \in TriggerHeaders(lines) :
             TriggerHeaders(lines) = {k} =>
               LET body   == BodyFrom(lines, k)
                   naming == NamingLines(body)
               IN  IF naming = {} THEN event = "PostToolUse"
                   ELSE \E m \in naming :
                          /\ \A n \in naming : n <= m
                          /\ event = EventNamed(body[m])

\* a trigger section whose last '- Event:' line names no lifecycle event,
\* after one that does
C28_Witness ==
  /\ ParseReturned /\ ~fnRet.threw
  /\ \E k \in TriggerHeaders(fnCall.content) :
       LET body == BodyFrom(fnCall.content, k) IN
       /\ Len(body) >= 4
       /\ HasPrefix(Trim(body[4]), <<"-", "SP", "event:">>)
       /\ EventNamed(body[4]) = None
  /\ fnRet.definition.trigger.event = "PreToolUse"

BothReturned == fnDone /\ fnCall.fn = "parseBoth"

\* C29 (as claimed): parseClaudeResponse and the parseResponse of a
\* generated validator return the same decision for every response text.
C29_SameDecision ==
  BothReturned => fnRet.runtime.decision = fnRet.generated.decision

\* the child of invocation i could not be started and at least one of its
\* callbacks has fired
FailedToStart(i) == proc[i] \in {"failedE", "failedC", "failedEC"}

====
